---- MODULE Spec2Model ----
(***************************************************************************)
(* The case-settings pipeline of CfdCaseWriterFoam.writeCase: the document *)
(* objects of one analysis are read, validated and turned into the         *)
(* settings dictionary by the processors, in the order writeCase calls     *)
(* them.  One behaviour is one call of writeCase.                          *)
(***************************************************************************)
EXTENDS Integers, Sequences, FiniteSets, TLC

\* ------------------------------------------------------------------ bounds
MaxBoundaries == 2
MaxMaterials == 3

\* ------------------------------------------------------------ python values
\* An optional value (a dictionary key that may be absent, a None): <<>> or <<v>>.
Absent == <<>>
Some(v) == <<v>>
\* A quantity held as text with its unit ('1000 kg/m^3'), and a float; v is
\* the magnitude in SI units.
Str(v) == [kind |-> "str", v |-> v]
Float(v) == [kind |-> "float", v |-> v]
\* Units.Quantity(x).getValueAs(unit).Value and Units.Quantity(x).Value: the
\* number a text or a float stands for.
QuantityValue(x) == x.v
\* d[key] = value on a dictionary.
SetKey(d, key, value) == (key :> value) @@ d
\* A boundary label is a string, modelled as its sequence of characters.
LabelPool == { <<"a">>, <<"b">>, <<" ", "c">>, <<"a", " ", "b">> }

\* str.find(' '): the index (from 0) of the first space, or -1.
RECURSIVE FindFrom(_, _, _)
FindFrom(s, ch, i) ==
  IF i > Len(s) THEN -1
  ELSE IF s[i] = ch THEN i - 1
  ELSE FindFrom(s, ch, i + 1)
Find(s, ch) == FindFrom(s, ch, 1)

Range(s) == { s[i] : i \in DOMAIN s }

\* ---------------------------------------------------------------- errors
NoError == [type |-> "none", msg |-> "none", arg |-> <<>>]
\* A raised exception: its class, its message text (named by its fixed part)
\* and the values formatted into the message.
Raise(type, msg, arg) == [type |-> type, msg |-> msg, arg |-> arg]

\* ------------------------------------------------ CfdFluidBoundary enumerations
BOUNDARY_TYPES == <<"wall", "inlet", "outlet", "open", "constraint", "baffle">>
SUBTYPES ==
  << <<"fixedWall", "slipWall", "partialSlipWall", "translatingWall", "roughWall">>,
     <<"uniformVelocityInlet", "volumetricFlowRateInlet", "massFlowRateInlet",
       "totalPressureInlet", "staticPressureInlet">>,
     <<"staticPressureOutlet", "uniformVelocityOutlet", "outFlowOutlet">>,
     <<"totalPressureOpening", "farField">>,
     <<"symmetry", "twoDBoundingPlane">>,
     <<"porousBaffle">> >>
THERMAL_BOUNDARY_TYPES == <<"fixedValue", "zeroGradient", "fixedGradient", "heatTransferCoeff">>
POROUS_METHODS == <<"porousCoeff", "porousScreen">>
TURBULENT_INLET_SPEC == <<"TKEAndSpecDissipationRate", "intensityAndLengthScale">>

\* The (BoundaryType, BoundarySubType) pairs the boundary task panel offers.
BoundaryKinds ==
  UNION { { <<BOUNDARY_TYPES[i], SUBTYPES[i][j]>> : j \in DOMAIN SUBTYPES[i] } :
          i \in DOMAIN SUBTYPES }
\* Both properties are independent enumerations of the object, so a script can
\* also set pairs the panel never offers.
ScriptedKinds == { <<"baffle", "fixedWall">>, <<"wall", "porousBaffle">> }

\* ------------------------------------------------------- document geometry
\* Document.getObject(name).Shape.getElement(sub): the shapes of the document.
\* Each element has a ShapeType, planarity and (for a face) the unit normal
\* at its parametric centre.
NoElement == [ShapeType |-> "none", planar |-> FALSE, normal |-> <<0, 0, 0>>]
ShapeElements ==
  [ Box |-> [ Face1 |-> [ShapeType |-> "Face", planar |-> TRUE, normal |-> <<1, 0, 0>>],
              Face2 |-> [ShapeType |-> "Face", planar |-> TRUE, normal |-> <<0, 0, -1>>],
              Face3 |-> [ShapeType |-> "Face", planar |-> FALSE, normal |-> <<0, 1, 0>>],
              Edge1 |-> [ShapeType |-> "Edge", planar |-> FALSE, normal |-> <<0, 0, 0>>] ] ]

\* ------------------------------------------------------- document objects
\* A boundary object (CfdFluidBoundary.initProperties), quantities in SI.
BaseBoundary(label, kind, n) ==
  [ Label |-> label, BoundaryType |-> kind[1], BoundarySubType |-> kind[2],
    References |-> << <<"Box", "Face1">> >>,
    VelocityIsCartesian |-> TRUE,
    Ux |-> 10 * n + 1, Uy |-> 10 * n + 2, Uz |-> 10 * n + 3,
    VelocityMag |-> 0, DirectionFace |-> <<>>, ReverseNormal |-> FALSE,
    Pressure |-> 120 * n,
    PorousBaffleMethod |-> "porousCoeff", PressureDropCoeff |-> <<0, 1>>,
    ScreenWireDiameter |-> 1, ScreenSpacing |-> 10,
    ThermalBoundaryType |-> "fixedValue", Temperature |-> 290 + n,
    TurbulenceInletSpecification |-> "intensityAndLengthScale",
    TurbulentKineticEnergy |-> n, SpecificDissipationRate |-> n + 5,
    TurbulenceIntensity |-> 1, TurbulenceLengthScale |-> 1,
    VolumeFractions |-> <<>> ]

\* A material object: Label and the Material property map (a dictionary, so a
\* property may be absent).
BaseMaterial(n) ==
  [ Label |-> <<"water", "air", "oil", "mercury">>[n],
    Material |-> [ Density |-> Str(2 * n), DynamicViscosity |-> Str(4 * n) ] ]

BasePhysics ==
  [ Phase |-> "Single", Flow |-> "Incompressible", Thermal |-> "None",
    Time |-> "Steady", Turbulence |-> "Laminar", TurbulenceModel |-> Absent ]

\* The initial-conditions object.  BoundaryU/P/T/Turb are links to boundary
\* objects: 0 is None, i > 0 is the i-th boundary of the boundary group.
BaseInitial ==
  [ Ux |-> 0, Uy |-> 0, Uz |-> 0, Pressure |-> 24, Temperature |-> 280,
    k |-> [value |-> 0], omega |-> [value |-> 0],
    PotentialFlow |-> FALSE, PotentialFlowP |-> FALSE,
    UseInletUValues |-> FALSE, BoundaryU |-> 0,
    UseOutletPValue |-> FALSE, BoundaryP |-> 0,
    UseInletTemperatureValue |-> FALSE, BoundaryT |-> 0,
    UseInletTurbulenceValues |-> FALSE, BoundaryTurb |-> 0,
    VolumeFractions |-> <<>> ]

BaseSolver == [ Parallel |-> FALSE, ParallelCores |-> 4 ]

BasePorousZone(label, corr) ==
  [ Label |-> label, References |-> << <<"Box", "">> >>, PorousCorrelation |-> corr,
    D1 |-> 1, D2 |-> 2, D3 |-> 3, F1 |-> 4, F2 |-> 5, F3 |-> 6,
    e1 |-> <<1, 0, 0>>, e3 |-> <<0, 0, 1>>,
    SpacingDirection |-> <<0, 1, 0>>, TubeAxis |-> <<0, 0, 1>>,
    TubeSpacing |-> 4, OuterDiameter |-> 2, VelocityEstimate |-> 1, AspectRatio |-> 1 ]

\* An initialisation zone; its VolumeFractions key may be absent.
BaseInitZone(label) == [ Label |-> label, Ux |-> 0 ]

BaseZone(label) == [ Label |-> label, References |-> << <<"Box", "">> >> ]

\* The analysis as CfdCaseWriterFoam.__init__ collects it.
BaseDoc ==
  [ pathExists |-> TRUE, meshPresent |-> TRUE,
    physics |-> BasePhysics,
    materials |-> << BaseMaterial(1) >>,
    bcs |-> << BaseBoundary(<<"a">>, <<"inlet", "uniformVelocityInlet">>, 1),
               BaseBoundary(<<"b">>, <<"outlet", "staticPressureOutlet">>, 2) >>,
    initial |-> BaseInitial,
    porousZones |-> <<>>, initZones |-> <<>>, zones |-> <<>>,
    solver |-> BaseSolver, snappyHexMesh |-> FALSE ]

\* ------------------------------------------------------------------ state
VARIABLES
  doc,       \* the analysis objects writeCase reads (never written)
  pc,        \* the statement of writeCase that runs next
  settings,  \* self.settings
  err,       \* the exception that left writeCase, NoError while none has
  caseDir,   \* what the case folder on disk holds
  ran,       \* the steps of writeCase that have run, in order
  print_next_error_lines,  \* CfdConsoleProcess.print_next_error_lines
  print_next_error_file,   \* CfdConsoleProcess.print_next_error_file
  fed,       \* the lines processErrorOutput was given since start(), in order
  returned,  \* what processErrorOutput returned since start(), call by call
  channel,   \* the read channel of CfdConsoleProcess.process
  buffered,  \* per channel, the complete lines the process wrote, not yet read
  written,   \* how many lines the process has written
  stack      \* the calls of readStdout and readStderr in progress, innermost last

writerVars == <<doc, pc, settings, err, caseDir, ran>>
scrapeVars == <<print_next_error_lines, print_next_error_file, fed, returned>>
readerVars == <<channel, buffered, written, stack>>
consoleVars == <<scrapeVars, readerVars>>
vars == <<writerVars, consoleVars>>

\* CfdConsoleProcess.__init__: nothing is pending, and the QProcess reads its
\* standard output, with nothing buffered and no callback running.
ConsoleConstructed ==
  /\ print_next_error_lines = 0
  /\ print_next_error_file = FALSE
  /\ fed = <<>>
  /\ returned = <<>>
  /\ channel = "StandardOutput"
  /\ buffered = [ StandardOutput |-> <<>>, StandardError |-> <<>> ]
  /\ written = 0
  /\ stack = <<>>

NoSettings == [built |-> FALSE]

\* ------------------------------------------------------- solver selection
\* CfdCaseWriterFoam.porousBafflesPresent, with the alternative that tests the
\* boundary type alone.
porousBafflesPresentTypeOnly(bc_group) ==
  \E i \in DOMAIN bc_group : bc_group[i].BoundaryType = "baffle"

porousBafflesPresent(bc_group) ==
  \E i \in DOMAIN bc_group :
    /\ bc_group[i].BoundaryType = "baffle"
    /\ bc_group[i].BoundarySubType = "porousBaffle"

\* CfdCaseWriterFoam.bafflesPresent
bafflesPresent(bc_group) ==
  \E i \in DOMAIN bc_group : bc_group[i].BoundaryType = "baffle"

Returned(name) == [solver |-> Some(name), err |-> NoError]
Raised(e) == [solver |-> Absent, err |-> e]

\* getSolverName, the branch "if self.physics_model.Phase == 'Single'",
\* with the alternative a loose test would give: the flow model tested
\* before the number of materials.
singlePhaseSolverFlowFirst(physics_model, material_objs, porousZone_objs, bc_group) ==
  IF physics_model.Flow \notin {"Incompressible", "Compressible", "HighMachCompressible"}
    THEN Raised(Raise("RuntimeError", "FlowNotSupported", <<physics_model.Flow>>))
  ELSE IF Len(material_objs) # 1
    THEN Raised(Raise("RuntimeError", "OnlyOneMaterial", <<>>))
  ELSE IF physics_model.Flow = "Incompressible" THEN
    IF physics_model.Thermal = "None" THEN
      IF physics_model.Time = "Transient" THEN Returned("pimpleFoam")
      ELSE IF porousZone_objs # <<>> \/ porousBafflesPresent(bc_group)
           THEN Returned("porousSimpleFoam")
           ELSE Returned("simpleFoam")
    ELSE Raised(Raise("RuntimeError", "OnlyIsothermalIncompressible", <<>>))
  ELSE IF physics_model.Flow = "Compressible" THEN
    IF physics_model.Time = "Transient" THEN Returned("buoyantPimpleFoam")
    ELSE Returned("buoyantSimpleFoam")
  ELSE Returned("hisa")

singlePhaseSolver(physics_model, material_objs, porousZone_objs, bc_group) ==
  IF Len(material_objs) = 1 THEN
    IF physics_model.Flow = "Incompressible" THEN
      IF physics_model.Thermal = "None" THEN
        IF physics_model.Time = "Transient" THEN Returned("pimpleFoam")
        ELSE IF porousZone_objs # <<>> \/ porousBafflesPresent(bc_group)
             THEN Returned("porousSimpleFoam")
             ELSE Returned("simpleFoam")
      ELSE Raised(Raise("RuntimeError", "OnlyIsothermalIncompressible", <<>>))
    ELSE IF physics_model.Flow = "Compressible" THEN
      IF physics_model.Time = "Transient" THEN Returned("buoyantPimpleFoam")
      ELSE Returned("buoyantSimpleFoam")
    ELSE IF physics_model.Flow = "HighMachCompressible" THEN Returned("hisa")
    ELSE Raised(Raise("RuntimeError", "FlowNotSupported", <<physics_model.Flow>>))
  ELSE Raised(Raise("RuntimeError", "OnlyOneMaterial", <<>>))

\* getSolverName, the branch "elif self.physics_model.Phase == 'FreeSurface'",
\* with the alternative that takes interFoam for two materials or more.
freeSurfaceSolverTwoOrMore(physics_model, material_objs) ==
  IF physics_model.Time = "Transient" THEN
    IF physics_model.Thermal = "None" THEN
      IF Len(material_objs) >= 2 THEN Returned("interFoam")
      ELSE Raised(Raise("RuntimeError", "AtLeastTwoMaterials", <<>>))
    ELSE Raised(Raise("RuntimeError", "OnlyIsothermalFreeSurface", <<>>))
  ELSE Raised(Raise("RuntimeError", "OnlyTransientFreeSurface", <<>>))

freeSurfaceSolver(physics_model, material_objs) ==
  IF physics_model.Time = "Transient" THEN
    IF physics_model.Thermal = "None" THEN
      IF Len(material_objs) = 2 THEN Returned("interFoam")
      ELSE IF Len(material_objs) > 2 THEN Returned("multiphaseInterFoam")
      ELSE Raised(Raise("RuntimeError", "AtLeastTwoMaterials", <<>>))
    ELSE Raised(Raise("RuntimeError", "OnlyIsothermalFreeSurface", <<>>))
  ELSE Raised(Raise("RuntimeError", "OnlyTransientFreeSurface", <<>>))

\* CfdCaseWriterFoam.getSolverName: the nested conditions of the code, in its
\* order.  The result is the solver name or the exception raised; every
\* branch assigns a solver or raises, so the final "if solver is None" never
\* raises.
getSolverName(physics_model, material_objs, porousZone_objs, bc_group) ==
  IF physics_model.Phase = "Single"
    THEN singlePhaseSolver(physics_model, material_objs, porousZone_objs, bc_group)
  ELSE IF physics_model.Phase = "FreeSurface"
    THEN freeSurfaceSolver(physics_model, material_objs)
  ELSE Raised(Raise("RuntimeError", "PhaseNotSupported", <<physics_model.Phase>>))

\* ------------------------------------------------------------- writeCase
\* An exception leaves writeCase: nothing in writeCase catches it.
Fail(e, step) ==
  /\ pc' = "failed"
  /\ err' = e
  /\ ran' = Append(ran, step)

Goto(next, step) ==
  /\ pc' = next
  /\ err' = err
  /\ ran' = Append(ran, step)

\* writeCase, the checks before the labels are read: the working directory
\* and the mesh object.
CheckPreconditions ==
  /\ pc = "start"
  /\ IF ~doc.pathExists
       THEN Fail(Raise("IOError", "PathDoesNotExist", <<"working_dir">>), "preconditions")
     ELSE IF ~doc.meshPresent
       THEN Fail(Raise("RuntimeError", "NoMeshObject", <<>>), "preconditions")
     ELSE Goto("validate", "preconditions")
  /\ UNCHANGED <<doc, settings, caseDir, consoleVars>>

bcLabels(bc_group) == [i \in DOMAIN bc_group |-> bc_group[i].Label]

\* The first loop of the label validation: the labels that hold a space, with
\* the alternative that takes find's result 0 for "not found".
SpaceLabelsPositive(bc_labels) == { i \in DOMAIN bc_labels : Find(bc_labels[i], " ") > 0 }

SpaceLabels(bc_labels) == { i \in DOMAIN bc_labels : Find(bc_labels[i], " ") >= 0 }
\* The second loop: the labels repeated at a later index, with the
\* alternative whose inner loop starts one index too late.
DuplicatedLabelsOffByOne(bc_labels) ==
  { i \in DOMAIN bc_labels : \E j \in (i + 2)..Len(bc_labels) : bc_labels[j] = bc_labels[i] }

DuplicatedLabels(bc_labels) ==
  { i \in DOMAIN bc_labels : \E j \in (i + 1)..Len(bc_labels) : bc_labels[j] = bc_labels[i] }

Min(S) == CHOOSE x \in S : \A y \in S : x <= y

\* writeCase, "Validate BC labels": the result is the exception raised, or
\* NoError.  All labels are checked for spaces before any is checked for
\* duplication.
validateLabels(bc_labels) ==
  IF SpaceLabels(bc_labels) # {}
    THEN Raise("ValueError", "LabelHasSpace", <<bc_labels[Min(SpaceLabels(bc_labels))]>>)
  ELSE IF DuplicatedLabels(bc_labels) # {}
    THEN Raise("ValueError", "LabelDuplicated", <<bc_labels[Min(DuplicatedLabels(bc_labels))]>>)
  ELSE NoError

ValidateLabels ==
  /\ pc = "validate"
  /\ LET e == validateLabels(bcLabels(doc.bcs))
     IN IF e # NoError THEN Fail(e, "validate") ELSE Goto("settings", "validate")
  /\ UNCHANGED <<doc, settings, caseDir, consoleVars>>

\* CfdTools.propsToDict of a boundary: its properties as a dictionary.  The
\* keys boundary processing adds later are absent.
boundaryToDict(b) ==
  [ x \in DOMAIN b \cup {"KinematicPressure"} |->
      IF x = "KinematicPressure" THEN Absent ELSE b[x] ]

\* CfdTools.propsToDict of the initial-conditions object.
initialToDict(ic) ==
  [ x \in DOMAIN ic \cup {"KinematicPressure"} |->
      IF x = "KinematicPressure" THEN Absent ELSE ic[x] ]

Max(S) == CHOOSE x \in S : \A y \in S : x >= y

\* dict((b.Label, propsToDict(b)) for b in bc_group): a later boundary with
\* the same label replaces the earlier one.
boundariesDict(bc_group) ==
  [ l \in Range(bcLabels(bc_group)) |->
      boundaryToDict(bc_group[Max({ i \in DOMAIN bc_group : bc_group[i].Label = l })]) ]

\* The keys of that dictionary in insertion order.
RECURSIVE dictKeys(_, _)
dictKeys(bc_group, i) ==
  IF i > Len(bc_group) THEN <<>>
  ELSE IF \E j \in 1..(i - 1) : bc_group[j].Label = bc_group[i].Label
    THEN dictKeys(bc_group, i + 1)
  ELSE <<bc_group[i].Label>> \o dictKeys(bc_group, i + 1)

zonesDict(objs) ==
  [ l \in { objs[i].Label : i \in DOMAIN objs } |->
      objs[Max({ i \in DOMAIN objs : objs[i].Label = l })] ]

\* writeCase, "self.settings = {...}".
initialSettings(d) ==
  [ built |-> TRUE,
    physics |-> d.physics,
    fluidProperties |-> <<>>,
    initialValues |-> initialToDict(d.initial),
    boundaries |-> boundariesDict(d.bcs),
    bafflesPresent |-> bafflesPresent(d.bcs),
    porousZones |-> <<>>,
    porousZonesPresent |-> FALSE,
    initialisationZones |-> zonesDict(d.initZones),
    initialisationZonesPresent |-> Len(d.initZones) > 0,
    zones |-> [ l \in { d.zones[i].Label : i \in DOMAIN d.zones } |->
                 LET o == d.zones[Max({ i \in DOMAIN d.zones : d.zones[i].Label = l })]
                 IN [ PartNameList |-> [ r \in DOMAIN o.References |-> o.References[r][1] ] ] ],
    zonesPresent |-> Len(d.zones) > 0,
    solver |-> [ Parallel |-> d.solver.Parallel, ParallelCores |-> d.solver.ParallelCores,
                 SolverName |-> Absent ],
    system |-> <<>>,
    runChangeDictionary |-> FALSE,
    createPatchesFromSnappyBaffles |-> Absent,
    createPatches |-> Absent ]

BuildSettings ==
  /\ pc = "settings"
  /\ settings' = initialSettings(doc)
  /\ Goto("system", "settings")
  /\ UNCHANGED <<doc, caseDir, consoleVars>>

\* CfdCaseWriterFoam.processSystemSettings
processSystemSettings(st) ==
  [ st EXCEPT !.system =
      [ FoamRuntime |-> "runtime", CasePath |-> "case_folder", FoamPath |-> "foam_dir",
        TranslatedFoamPath |-> "translated_foam_dir" ] ]

ProcessSystemSettings ==
  /\ pc = "system"
  /\ settings' = processSystemSettings(settings)
  /\ Goto("solver", "processSystemSettings")
  /\ UNCHANGED <<doc, caseDir, consoleVars>>

\* processSolverSettings, the core-count correction, with the alternative
\* that does not test the Parallel flag.
correctCoresAlways(solver_settings) ==
  IF solver_settings.ParallelCores < 2
    THEN [ solver_settings EXCEPT !.ParallelCores = 2 ]
    ELSE solver_settings

correctCores(solver_settings) ==
  IF solver_settings.Parallel /\ solver_settings.ParallelCores < 2
    THEN [ solver_settings EXCEPT !.ParallelCores = 2 ]
    ELSE solver_settings

\* CfdCaseWriterFoam.processSolverSettings: the cores are corrected in the
\* dictionary before getSolverName is called, so they stay corrected when it
\* raises.
ProcessSolverSettings ==
  /\ pc = "solver"
  /\ LET corrected == correctCores(settings.solver)
         r == getSolverName(doc.physics, doc.materials, doc.porousZones, doc.bcs)
     IN IF r.err # NoError
          THEN /\ settings' = [ settings EXCEPT !.solver = corrected ]
               /\ Fail(r.err, "processSolverSettings")
          ELSE /\ settings' = [ settings EXCEPT !.solver =
                                  [ corrected EXCEPT !.SolverName = r.solver ] ]
               /\ Goto("fluid", "processSolverSettings")
  /\ UNCHANGED <<doc, caseDir, consoleVars>>

\* -------------------------------------------------------- fluid properties
Done(value) == [value |-> value, err |-> NoError]
Thrown(value, e) == [value |-> value, err |-> e]

\* The Sutherland constant mu0/T0**1.5*(T0+Ts), kept as the expression.
SutherlandConstant(mu0, T0, Ts) == [expr |-> "mu0/T0^1.5*(T0+Ts)", mu0 |-> mu0, T0 |-> T0, Ts |-> Ts]

\* processFluidProperties, "if 'Density' in mp".
convertDensity(mp) ==
  IF "Density" \in DOMAIN mp
    THEN SetKey(mp, "Density", Float(QuantityValue(mp["Density"])))
    ELSE mp

\* processFluidProperties, "if 'DynamicViscosity' in mp": the viscosity is
\* converted (0.0 for an inviscid model) and divided by mp['Density'].
convertViscosity(mp, physics_model) ==
  IF "DynamicViscosity" \notin DOMAIN mp THEN Done(mp)
  ELSE LET mu == IF physics_model.Turbulence = "Inviscid" THEN 0
                 ELSE QuantityValue(mp["DynamicViscosity"])
       IN IF "Density" \notin DOMAIN mp
            THEN Thrown(mp, Raise("KeyError", "KeyError", <<"Density">>))
          ELSE IF mp["Density"].v = 0
            THEN Thrown(mp, Raise("ZeroDivisionError", "DivisionByZero", <<>>))
          ELSE Done(SetKey(SetKey(mp, "DynamicViscosity", Float(mu)),
                           "KinematicViscosity", Float(mu \div mp["Density"].v)))

\* processFluidProperties, "if 'MolarMass' in mp": kg/mol to kg/kmol.
convertMolarMass(mp) ==
  IF "MolarMass" \in DOMAIN mp
    THEN SetKey(mp, "MolarMass", Float(QuantityValue(mp["MolarMass"]) * 1000))
    ELSE mp

\* processFluidProperties, "if 'Cp' in mp".
convertCp(mp) ==
  IF "Cp" \in DOMAIN mp THEN SetKey(mp, "Cp", Float(QuantityValue(mp["Cp"]))) ELSE mp

\* processFluidProperties, "if 'SutherlandTemperature' in mp".
convertSutherland(mp) ==
  IF "SutherlandTemperature" \notin DOMAIN mp THEN mp
  ELSE IF "SutherlandRefViscosity" \in DOMAIN mp /\ "SutherlandRefTemperature" \in DOMAIN mp
    THEN SetKey(SetKey(mp, "SutherlandTemperature",
                       Float(QuantityValue(mp["SutherlandTemperature"]))),
                "SutherlandConstant",
                SutherlandConstant(QuantityValue(mp["SutherlandRefViscosity"]),
                                   QuantityValue(mp["SutherlandRefTemperature"]),
                                   QuantityValue(mp["SutherlandTemperature"])))
  ELSE SetKey(mp, "SutherlandTemperature", Float(QuantityValue(mp["SutherlandTemperature"])))

\* The conversions that follow the viscosity, when it did not raise.
convertRest(r) ==
  IF r.err # NoError THEN r
  ELSE Done(convertSutherland(convertCp(convertMolarMass(r.value))))

\* processFluidProperties, the body of the loop for one material object: the
\* converted property dictionary, or the exception raised.
convertMaterial(material_obj, physics_model) ==
  convertRest(convertViscosity(
    convertDensity(SetKey(material_obj.Material, "Name", material_obj.Label)),
    physics_model))

\* CfdCaseWriterFoam.processFluidProperties: the materials are converted and
\* appended in order; an exception leaves the ones already appended.
RECURSIVE processFluidProperties(_, _, _, _)
processFluidProperties(material_objs, physics_model, i, fluidProperties) ==
  IF i > Len(material_objs) THEN Done(fluidProperties)
  ELSE LET r == convertMaterial(material_objs[i], physics_model)
       IN IF r.err # NoError THEN Thrown(fluidProperties, r.err)
          ELSE processFluidProperties(material_objs, physics_model, i + 1,
                                      Append(fluidProperties, r.value))

ProcessFluidProperties ==
  /\ pc = "fluid"
  /\ LET r == processFluidProperties(doc.materials, doc.physics, 1, settings.fluidProperties)
     IN /\ settings' = [ settings EXCEPT !.fluidProperties = r.value ]
        /\ IF r.err # NoError THEN Fail(r.err, "processFluidProperties")
           ELSE Goto("boundaries", "processFluidProperties")
  /\ UNCHANGED <<doc, caseDir, consoleVars>>

\* ------------------------------------------------------ boundary conditions
\* A DirectionFace text is modelled as its pieces: names and ":" separators.
\* str.split(':'): the list of the texts between the separators.
RECURSIVE splitColon(_, _, _)
splitColon(text, i, piece) ==
  IF i > Len(text) THEN <<piece>>
  ELSE IF text[i] = ":" THEN <<piece>> \o splitColon(text, i + 1, "")
  ELSE splitColon(text, i + 1, text[i])
split(text) == splitColon(text, 1, "")

\* Document.getObject(name): whether the object exists and has a Shape.
hasShape(name) == name \in DOMAIN ShapeElements
\* Shape.getElement(sub): the element, NoElement when the call raises (a
\* missing element raises Part.OCCError, a RuntimeError; an empty or
\* unrecognised name leaves a NULL result, a SystemError).
getElement(name, sub) ==
  IF sub \in DOMAIN ShapeElements[name] THEN ShapeElements[name][sub] ELSE NoElement

InvalidFace(bc) == Raise("RuntimeError", "NotAValidPlanarFace", <<bc.DirectionFace>>)

\* processBoundaryConditions, "if not bc['VelocityIsCartesian']", with the
\* alternative that falls back to the first reference when the face part of
\* the text (the last piece) is empty.
deriveVelocityEmptyFacePart(bc) ==
  LET face0 == split(bc.DirectionFace)
      useRef == face0[Len(face0)] = ""
      face == IF useRef /\ bc.References # <<>> THEN bc.References[1] ELSE face0
  IN IF useRef /\ bc.References = <<>>
       THEN Thrown(bc, Raise("IndexError", "ListIndexOutOfRange", <<>>))
     ELSE IF ~hasShape(face[1]) THEN Thrown(bc, InvalidFace(bc))
     ELSE IF Len(face) < 2
       THEN Thrown(bc, Raise("IndexError", "ListIndexOutOfRange", <<>>))
     ELSE LET elt == getElement(face[1], face[2])
              n == IF bc.ReverseNormal THEN [ i \in 1..3 |-> -elt.normal[i] ] ELSE elt.normal
          IN IF elt.ShapeType = "Face" /\ elt.planar
               THEN Done([ bc EXCEPT !.Ux = n[1] * bc.VelocityMag,
                                     !.Uy = n[2] * bc.VelocityMag,
                                     !.Uz = n[3] * bc.VelocityMag ])
               ELSE Thrown(bc, InvalidFace(bc))

\* processBoundaryConditions, "if not bc['VelocityIsCartesian']".
deriveVelocity(bc) ==
  LET face0 == split(bc.DirectionFace)
      useRef == face0[1] = ""
      face == IF useRef /\ bc.References # <<>> THEN bc.References[1] ELSE face0
  IN IF useRef /\ bc.References = <<>>
       THEN Thrown(bc, Raise("IndexError", "ListIndexOutOfRange", <<>>))
     ELSE IF ~hasShape(face[1]) THEN Thrown(bc, InvalidFace(bc))
     ELSE IF Len(face) < 2
       THEN Thrown(bc, Raise("IndexError", "ListIndexOutOfRange", <<>>))
     ELSE LET elt == getElement(face[1], face[2])
              n == IF bc.ReverseNormal THEN [ i \in 1..3 |-> -elt.normal[i] ] ELSE elt.normal
          IN IF elt.ShapeType = "Face" /\ elt.planar
               THEN Done([ bc EXCEPT !.Ux = n[1] * bc.VelocityMag,
                                     !.Uy = n[2] * bc.VelocityMag,
                                     !.Uz = n[3] * bc.VelocityMag ])
               ELSE Thrown(bc, InvalidFace(bc))

\* The solvers that work with kinematic pressure, with the alternative that
\* leaves the transient solver out.
KinematicSolversSteady == {"simpleFoam", "porousSimpleFoam"}

KinematicSolvers == {"simpleFoam", "porousSimpleFoam", "pimpleFoam"}

\* The solvers whose volume fractions are normalized, with the alternative
\* that leaves the two-material solver out.
AlphaSolversMultiphaseOnly == {"multiphaseInterFoam"}

AlphaSolvers == {"interFoam", "multiphaseInterFoam"}

\* bc['Pressure']/settings['fluidProperties'][0]['Density']
kinematicPressure(rec, fluidProperties) ==
  IF fluidProperties = <<>>
    THEN Thrown(rec, Raise("IndexError", "ListIndexOutOfRange", <<>>))
  ELSE IF "Density" \notin DOMAIN fluidProperties[1]
    THEN Thrown(rec, Raise("KeyError", "KeyError", <<"Density">>))
  ELSE IF fluidProperties[1]["Density"].v = 0
    THEN Thrown(rec, Raise("ZeroDivisionError", "DivisionByZero", <<>>))
  ELSE Done([ rec EXCEPT !.KinematicPressure =
                Some(rec.Pressure \div fluidProperties[1]["Density"].v) ])

\* The Simmons screen model: CD*(1-beta) with beta = (1-d/s)**2 and CD = 1.0,
\* as the fraction <<numerator, denominator>>.
pressureDropCoeff(wireDiam, spacing) ==
  << spacing * spacing - (spacing - wireDiam) * (spacing - wireDiam), spacing * spacing >>

porousScreen(bc) ==
  IF bc.ScreenSpacing = 0
    THEN Thrown(bc, Raise("ZeroDivisionError", "DivisionByZero", <<>>))
    ELSE Done([ bc EXCEPT !.PressureDropCoeff =
                  pressureDropCoeff(bc.ScreenWireDiameter, bc.ScreenSpacing) ])

\* The volume-fraction loop over the ordered material list.  Fractions are
\* counted in tenths (One is 1.0).
One == 10
\* The alternative to the loop that reads and accumulates the fraction of
\* every material, the last one included, before the last one is written.
RECURSIVE alphaLoopSumAll(_, _, _, _, _, _)
alphaLoopSumAll(fluidProperties, fractions, SolverName, i, sum_alpha, alphas_new) ==
  IF i > Len(fluidProperties) THEN alphas_new
  ELSE LET alpha_name == fluidProperties[i]["Name"]
           alpha == IF alpha_name \in DOMAIN fractions
                      THEN QuantityValue(fractions[alpha_name])
                      ELSE QuantityValue(Str(0))
       IN IF i = Len(fluidProperties)
            THEN IF SolverName = "multiphaseInterFoam"
                   THEN SetKey(alphas_new, alpha_name, Float(One - (sum_alpha + alpha)))
                   ELSE alphas_new
            ELSE alphaLoopSumAll(fluidProperties, fractions, SolverName, i + 1,
                                 sum_alpha + alpha, SetKey(alphas_new, alpha_name, Float(alpha)))

RECURSIVE alphaLoop(_, _, _, _, _, _)
alphaLoop(fluidProperties, fractions, SolverName, i, sum_alpha, alphas_new) ==
  IF i > Len(fluidProperties) THEN alphas_new
  ELSE LET alpha_name == fluidProperties[i]["Name"]
       IN IF i = Len(fluidProperties)
            THEN IF SolverName = "multiphaseInterFoam"
                   THEN SetKey(alphas_new, alpha_name, Float(One - sum_alpha))
                   ELSE alphas_new
            ELSE LET alpha == IF alpha_name \in DOMAIN fractions
                                THEN QuantityValue(fractions[alpha_name])
                                ELSE QuantityValue(Str(0))
                 IN alphaLoop(fluidProperties, fractions, SolverName, i + 1,
                              sum_alpha + alpha, SetKey(alphas_new, alpha_name, Float(alpha)))

\* The loop from "sum_alpha = 0.0; alphas_new = {}", with the alternative that
\* starts from the mapping given instead of an empty one.
normalizeFractionsKeepGiven(fluidProperties, fractions, SolverName) ==
  alphaLoop(fluidProperties, fractions, SolverName, 1, 0, fractions)

normalizeFractions(fluidProperties, fractions, SolverName) ==
  alphaLoop(fluidProperties, fractions, SolverName, 1, 0, <<>>)

\* processBoundaryConditions, the four parts of the loop body; each runs when
\* the part before it did not raise.
boundaryVelocity(bc) ==
  IF ~bc.VelocityIsCartesian THEN deriveVelocity(bc) ELSE Done(bc)

boundaryPressure(r, st) ==
  IF r.err # NoError THEN r
  ELSE IF st.solver.SolverName[1] \in KinematicSolvers
    THEN kinematicPressure(r.value, st.fluidProperties)
  ELSE r

boundaryScreen(r) ==
  IF r.err # NoError THEN r
  ELSE IF r.value.PorousBaffleMethod = "porousScreen" THEN porousScreen(r.value)
  ELSE r

boundaryFractions(r, st) ==
  IF r.err # NoError THEN r
  ELSE IF st.solver.SolverName[1] \in AlphaSolvers
    THEN Done([ r.value EXCEPT !.VolumeFractions =
                  normalizeFractions(st.fluidProperties, r.value.VolumeFractions,
                                     st.solver.SolverName[1]) ])
  ELSE r

\* processBoundaryConditions, the body of the loop for one boundary.
processBoundary(bc, st) ==
  boundaryFractions(boundaryScreen(boundaryPressure(boundaryVelocity(bc), st)), st)

\* CfdCaseWriterFoam.processBoundaryConditions: the boundaries in dictionary
\* order; an exception leaves the boundaries before it processed.
RECURSIVE processBoundaryConditions(_, _, _)
processBoundaryConditions(keys, i, st) ==
  IF i > Len(keys) THEN Done(st)
  ELSE LET r == processBoundary(st.boundaries[keys[i]], st)
           st2 == [ st EXCEPT !.boundaries[keys[i]] = r.value ]
       IN IF r.err # NoError THEN Thrown(st2, r.err)
          ELSE processBoundaryConditions(keys, i + 1, st2)

ProcessBoundaryConditions ==
  /\ pc = "boundaries"
  /\ LET r == processBoundaryConditions(dictKeys(doc.bcs, 1), 1, settings)
     IN /\ settings' = r.value
        /\ IF r.err # NoError THEN Fail(r.err, "processBoundaryConditions")
           ELSE Goto("initial", "processBoundaryConditions")
  /\ UNCHANGED <<doc, caseDir, consoleVars>>

\* ------------------------------------------------------- initial conditions
\* The solvers that support potential pressure initialisation, with the
\* alternative that leaves out hisa.
PotentialSolversNoHisa == {"simpleFoam", "porousSimpleFoam", "pimpleFoam"}

PotentialSolvers == {"simpleFoam", "porousSimpleFoam", "pimpleFoam", "hisa"}

\* settings['boundaries'][link.Label] for a link to the i-th boundary object,
\* with the alternative that reads the properties of the linked object.
linkedBoundaryObject(st, bc_group, i) == boundaryToDict(bc_group[i])

linkedBoundary(st, bc_group, i) == st.boundaries[bc_group[i].Label]

\* processInitialConditions, "Copy velocity", with the alternative that
\* accepts the uniform-velocity inlet alone.
copyVelocityInletOnly(initial_values, st, bc_group) ==
  IF ~initial_values.UseInletUValues THEN Done(initial_values)
  ELSE IF initial_values.BoundaryU # 0
    THEN LET inlet_bc == linkedBoundary(st, bc_group, initial_values.BoundaryU)
         IN IF inlet_bc.BoundarySubType = "uniformVelocityInlet"
              THEN Done([ initial_values EXCEPT !.Ux = inlet_bc.Ux,
                                                !.Uy = inlet_bc.Uy,
                                                !.Uz = inlet_bc.Uz ])
              ELSE Thrown(initial_values,
                          Raise("RuntimeError", "BoundaryNotAppropriateForVelocity", <<>>))
    ELSE Thrown(initial_values, Raise("RuntimeError", "NoBoundaryForVelocity", <<>>))

copyVelocity(initial_values, st, bc_group) ==
  IF ~initial_values.UseInletUValues THEN Done(initial_values)
  ELSE IF initial_values.BoundaryU # 0
    THEN LET inlet_bc == linkedBoundary(st, bc_group, initial_values.BoundaryU)
         IN IF \/ inlet_bc.BoundarySubType = "uniformVelocityInlet"
               \/ inlet_bc.BoundarySubType = "farField"
              THEN Done([ initial_values EXCEPT !.Ux = inlet_bc.Ux,
                                                !.Uy = inlet_bc.Uy,
                                                !.Uz = inlet_bc.Uz ])
              ELSE Thrown(initial_values,
                          Raise("RuntimeError", "BoundaryNotAppropriateForVelocity", <<>>))
    ELSE Thrown(initial_values, Raise("RuntimeError", "NoBoundaryForVelocity", <<>>))

\* The sub-types "Copy pressure" accepts, with the alternative that omits
\* the static-pressure inlet.
PressureSubTypesNoStaticInlet ==
  { "staticPressureOutlet", "totalPressureOpening", "totalPressureInlet", "farField" }

PressureSubTypes ==
  { "staticPressureOutlet", "totalPressureOpening", "totalPressureInlet",
    "staticPressureInlet", "farField" }

\* processInitialConditions, "Copy pressure".
copyPressure(initial_values, st, bc_group) ==
  IF ~initial_values.UseOutletPValue THEN Done(initial_values)
  ELSE IF initial_values.BoundaryP # 0
    THEN LET outlet_bc == linkedBoundary(st, bc_group, initial_values.BoundaryP)
         IN IF outlet_bc.BoundarySubType \in PressureSubTypes
              THEN Done([ initial_values EXCEPT !.Pressure = outlet_bc.Pressure ])
              ELSE Thrown(initial_values,
                          Raise("RuntimeError", "BoundaryNotAppropriateForPressure", <<>>))
    ELSE Thrown(initial_values, Raise("RuntimeError", "NoBoundaryForPressure", <<>>))

\* processInitialConditions, the temperature copy, with the alternative that
\* does not look at the thermal boundary type of an inlet.
copyTemperatureAnyInlet(initial_values, st, bc_group) ==
  IF ~(st.physics.Thermal = "Energy" /\ initial_values.UseInletTemperatureValue)
    THEN Done(initial_values)
  ELSE IF initial_values.BoundaryT = 0
    THEN Thrown(initial_values, Raise("AttributeError", "NoneHasNoLabel", <<>>))
  ELSE LET inlet_bc == linkedBoundary(st, bc_group, initial_values.BoundaryT)
       IN IF inlet_bc.BoundaryType = "inlet" \/ inlet_bc.BoundarySubType = "farField"
            THEN Done([ initial_values EXCEPT !.Temperature = inlet_bc.Temperature ])
          ELSE Thrown(initial_values,
                      Raise("RuntimeError", "InletNotAppropriateForTemperature", <<>>))

\* processInitialConditions, the temperature copy.  BoundaryT is not tested
\* for None before its Label is read.
copyTemperature(initial_values, st, bc_group) ==
  IF ~(st.physics.Thermal = "Energy" /\ initial_values.UseInletTemperatureValue)
    THEN Done(initial_values)
  ELSE IF initial_values.BoundaryT = 0
    THEN Thrown(initial_values, Raise("AttributeError", "NoneHasNoLabel", <<>>))
  ELSE LET inlet_bc == linkedBoundary(st, bc_group, initial_values.BoundaryT)
       IN IF inlet_bc.BoundaryType = "inlet"
            THEN IF inlet_bc.ThermalBoundaryType = "fixedValue"
                   THEN Done([ initial_values EXCEPT !.Temperature = inlet_bc.Temperature ])
                   ELSE Thrown(initial_values,
                               Raise("RuntimeError", "InletNotAppropriateForTemperature", <<>>))
          ELSE IF inlet_bc.BoundarySubType = "farField"
            THEN Done([ initial_values EXCEPT !.Temperature = inlet_bc.Temperature ])
          ELSE Thrown(initial_values,
                      Raise("RuntimeError", "InletNotAppropriateForTemperature", <<>>))

\* The "/" of two integers as the interpreter computes it: the module has no
\* "from __future__ import division", so Python 2 floors the quotient and
\* Python 3 keeps it.  The result is the fraction <<numerator, denominator>>.
Divisions == {"floor", "true"}
IntDiv(a, b, division) == IF division = "floor" THEN <<a \div b, 1>> ELSE <<a, b>>

\* k = 3/2*(Uin*I)**2 and omega = k**0.5/(Cmu**0.25*l), kept as expressions
\* of the factor 3/2 as computed, the squared speed, the intensity and the
\* length scale.
turbulentK(inlet_bc, division) ==
  [ expr |-> "3/2*(Uin*I)^2",
    factor |-> IntDiv(3, 2, division),
    Uin2 |-> inlet_bc.Ux * inlet_bc.Ux + inlet_bc.Uy * inlet_bc.Uy + inlet_bc.Uz * inlet_bc.Uz,
    I |-> inlet_bc.TurbulenceIntensity ]
turbulentOmega(k, inlet_bc) ==
  [ expr |-> "k^0.5/(0.09^0.25*l)", k |-> k, l |-> inlet_bc.TurbulenceLengthScale ]

\* processInitialConditions, "Copy turbulence settings", with the alternative
\* that computes k and omega from the intensity and length scale of a source
\* of any sub-type.
copyTurbulenceAnySubType(initial_values, st, bc_group, division) ==
  IF st.physics.TurbulenceModel = Absent \/ ~initial_values.UseInletTurbulenceValues
    THEN Done(initial_values)
  ELSE IF initial_values.BoundaryTurb = 0
    THEN Thrown(initial_values, Raise("RuntimeError", "NoBoundaryForTurbulence", <<>>))
  ELSE LET inlet_bc == linkedBoundary(st, bc_group, initial_values.BoundaryTurb)
       IN IF inlet_bc.TurbulenceInletSpecification = "TKEAndSpecDissipationRate"
            THEN Done([ initial_values EXCEPT
                          !.k = [value |-> inlet_bc.TurbulentKineticEnergy],
                          !.omega = [value |-> inlet_bc.SpecificDissipationRate] ])
          ELSE IF inlet_bc.TurbulenceInletSpecification = "intensityAndLengthScale"
            THEN Done([ initial_values EXCEPT
                          !.k = turbulentK(inlet_bc, division),
                          !.omega = turbulentOmega(turbulentK(inlet_bc, division), inlet_bc) ])
          ELSE Thrown(initial_values,
                      Raise("RuntimeError", "TurbulenceSpecUnsupported", <<>>))

\* processInitialConditions, "Copy turbulence settings".
copyTurbulence(initial_values, st, bc_group, division) ==
  IF st.physics.TurbulenceModel = Absent \/ ~initial_values.UseInletTurbulenceValues
    THEN Done(initial_values)
  ELSE IF initial_values.BoundaryTurb = 0
    THEN Thrown(initial_values, Raise("RuntimeError", "NoBoundaryForTurbulence", <<>>))
  ELSE LET inlet_bc == linkedBoundary(st, bc_group, initial_values.BoundaryTurb)
       IN IF inlet_bc.TurbulenceInletSpecification = "TKEAndSpecDissipationRate"
            THEN Done([ initial_values EXCEPT
                          !.k = [value |-> inlet_bc.TurbulentKineticEnergy],
                          !.omega = [value |-> inlet_bc.SpecificDissipationRate] ])
          ELSE IF inlet_bc.TurbulenceInletSpecification = "intensityAndLengthScale"
            THEN IF \/ inlet_bc.BoundarySubType = "uniformVelocity"
                    \/ inlet_bc.BoundarySubType = "farField"
                   THEN Done([ initial_values EXCEPT
                                 !.k = turbulentK(inlet_bc, division),
                                 !.omega = turbulentOmega(turbulentK(inlet_bc, division), inlet_bc) ])
                   ELSE Thrown(initial_values,
                               Raise("RuntimeError", "InletUnsupportedForTurbulence", <<>>))
          ELSE Thrown(initial_values,
                      Raise("RuntimeError", "TurbulenceSpecUnsupported", <<>>))

\* The sub-type names processInitialConditions compares BoundarySubType
\* with: in the velocity copy, the pressure copy and the turbulence copy.
TestedSubTypes ==
  {"uniformVelocityInlet", "farField"} \cup PressureSubTypes \cup {"uniformVelocity", "farField"}

\* processInitialConditions, the kinematic pressure of the initial values.
initialPressure(st) ==
  IF st.solver.SolverName[1] \in KinematicSolvers
    THEN kinematicPressure(st.initialValues, st.fluidProperties)
    ELSE Done(st.initialValues)

\* processInitialConditions, the volume fractions of the initial values.
initialFractions(r, st) ==
  IF r.err # NoError THEN r
  ELSE IF st.solver.SolverName[1] \in AlphaSolvers
    THEN Done([ r.value EXCEPT !.VolumeFractions =
                  normalizeFractions(st.fluidProperties, r.value.VolumeFractions,
                                     st.solver.SolverName[1]) ])
  ELSE r

\* processInitialConditions, "if initial_values['PotentialFlowP']".
potentialFlow(r, st) ==
  IF r.err # NoError THEN r
  ELSE IF r.value.PotentialFlowP /\ st.solver.SolverName[1] \notin PotentialSolvers
    THEN Thrown(r.value, Raise("RuntimeError", "NoPotentialPressureInitialisation", <<>>))
  ELSE r

\* A step of processInitialConditions runs when the steps before it did not
\* raise.
velocityStep(r, st, bc_group) ==
  IF r.err # NoError THEN r ELSE copyVelocity(r.value, st, bc_group)
pressureStep(r, st, bc_group) ==
  IF r.err # NoError THEN r ELSE copyPressure(r.value, st, bc_group)
temperatureStep(r, st, bc_group) ==
  IF r.err # NoError THEN r ELSE copyTemperature(r.value, st, bc_group)
turbulenceStep(r, st, bc_group, division) ==
  IF r.err # NoError THEN r ELSE copyTurbulence(r.value, st, bc_group, division)

\* CfdCaseWriterFoam.processInitialConditions: the steps in the order of the
\* code, on the initial-values dictionary of the settings; an exception
\* leaves what the steps before it wrote.
processInitialConditions(st, bc_group, division) ==
  turbulenceStep(
    temperatureStep(
      pressureStep(
        velocityStep(potentialFlow(initialFractions(initialPressure(st), st), st),
                     st, bc_group),
        st, bc_group),
      st, bc_group),
    st, bc_group, division)

\* writeCase, "self.processInitialConditions()", under either interpreter.
ProcessInitialConditions ==
  /\ pc = "initial"
  /\ \E division \in Divisions :
       LET r == processInitialConditions(settings, doc.bcs, division)
       IN /\ settings' = [ settings EXCEPT !.initialValues = r.value ]
          /\ IF r.err # NoError THEN Fail(r.err, "processInitialConditions")
             ELSE Goto("clear", "processInitialConditions")
  /\ UNCHANGED <<doc, caseDir, consoleVars>>

\* ------------------------------------------------------------ case folder
\* CfdCaseWriterFoam.clearCase (no backup path): the folder is removed and
\* created again.
clearCase(dir) == "empty"

ClearCase ==
  /\ pc = "clear"
  /\ caseDir' = clearCase(caseDir)
  /\ Goto("stl", "clearCase")
  /\ UNCHANGED <<doc, settings, consoleVars>>

\* The (zone, reference) pairs exportZoneStlSurfaces visits, in order.
zoneReferences(zone_objs) ==
  UNION { { <<i, j>> : j \in DOMAIN zone_objs[i].References } : i \in DOMAIN zone_objs }

\* CfdCaseWriterFoam.exportZoneStlSurfaces: for every reference of every
\* zone the triSurface folder is made and the surface of the referenced
\* object written; a reference to an object that is gone raises once the
\* folder is made.
exportZoneStlSurfaces(zone_objs, dir) ==
  IF zoneReferences(zone_objs) = {} THEN Done(dir)
  ELSE IF \E p \in zoneReferences(zone_objs) :
            ~hasShape(zone_objs[p[1]].References[p[2]][1])
    THEN Thrown("partial", Raise("AttributeError", "NoneHasNoShape", <<>>))
  ELSE Done("partial")

ExportZoneStlSurfaces ==
  /\ pc = "stl"
  /\ LET r == exportZoneStlSurfaces(doc.zones, caseDir)
     IN /\ caseDir' = r.value
        /\ IF r.err # NoError THEN Fail(r.err, "exportZoneStlSurfaces")
           ELSE Goto("porous", "exportZoneStlSurfaces")
  /\ UNCHANGED <<doc, settings, consoleVars>>

\* processPorousZoneProperties, the body of the loop for one zone, with the
\* alternative that resolves every name other than Jakob as DarcyForchheimer.
porousZoneEntryDarcyByDefault(po, st) ==
  LET pd == [ PartNameList |-> [ r \in DOMAIN po.References |-> po.References[r][1] ] ]
  IN IF po.PorousCorrelation # "Jakob"
       THEN Done(pd @@ [ D |-> <<po.D1, po.D2, po.D3>>, F |-> <<po.F1, po.F2, po.F3>>,
                         e1 |-> po.e1, e3 |-> po.e3 ])
     ELSE Thrown(pd @@ [ e1 |-> po.SpacingDirection, e3 |-> po.TubeAxis ],
                 Raise("TypeError", "ListIndicesMustBeIntegers", <<>>))

\* ------------------------------------------------------------ porous zones
\* processPorousZoneProperties, the body of the loop for one zone: its entry
\* of settings['porousZones'], or the exception raised.  The Jakob branch
\* reads settings['fluidProperties']['KinematicViscosity']: fluidProperties
\* is a list, and a list indexed by a string raises TypeError.
porousZoneEntry(po, st) ==
  LET pd == [ PartNameList |-> [ r \in DOMAIN po.References |-> po.References[r][1] ] ]
  IN IF po.PorousCorrelation = "DarcyForchheimer"
       THEN Done(pd @@ [ D |-> <<po.D1, po.D2, po.D3>>, F |-> <<po.F1, po.F2, po.F3>>,
                         e1 |-> po.e1, e3 |-> po.e3 ])
     ELSE IF po.PorousCorrelation = "Jakob"
       THEN Thrown(pd @@ [ e1 |-> po.SpacingDirection, e3 |-> po.TubeAxis ],
                   Raise("TypeError", "ListIndicesMustBeIntegers", <<>>))
     ELSE Thrown(pd, Raise("RuntimeError", "UnrecognisedPorousMethod", <<>>))

\* CfdCaseWriterFoam.processPorousZoneProperties
RECURSIVE processPorousZoneProperties(_, _, _)
processPorousZoneProperties(porousZone_objs, i, st) ==
  IF i > Len(porousZone_objs) THEN Done(st)
  ELSE LET r == porousZoneEntry(porousZone_objs[i], st)
       IN IF r.err # NoError THEN Thrown(st, r.err)
          ELSE processPorousZoneProperties(porousZone_objs, i + 1,
                 [ st EXCEPT !.porousZones = SetKey(@, porousZone_objs[i].Label, r.value) ])

\* writeCase, "if self.porousZone_objs: self.processPorousZoneProperties()".
ProcessPorousZoneProperties ==
  /\ pc = "porous"
  /\ IF doc.porousZones = <<>>
       THEN /\ settings' = settings
            /\ pc' = "initZones"
            /\ UNCHANGED <<err, ran>>
       ELSE LET r == processPorousZoneProperties(doc.porousZones, 1,
                       [ settings EXCEPT !.porousZonesPresent = TRUE ])
            IN /\ settings' = r.value
               /\ IF r.err # NoError THEN Fail(r.err, "processPorousZoneProperties")
                  ELSE Goto("initZones", "processPorousZoneProperties")
  /\ UNCHANGED <<doc, caseDir, consoleVars>>

\* processInitialisationZoneProperties, the body of the loop for one zone.
initialisationZone(z, st) ==
  IF "VolumeFractions" \in DOMAIN z
    THEN SetKey(z, "VolumeFractions",
                normalizeFractions(st.fluidProperties, z["VolumeFractions"],
                                   st.solver.SolverName[1]))
    ELSE z

\* CfdCaseWriterFoam.processInitialisationZoneProperties, with the
\* alternative that also sets the presence flag of the zones.
processInitialisationZonePropertiesAndFlag(st) ==
  [ ( IF st.solver.SolverName[1] \in AlphaSolvers
        THEN [ st EXCEPT !.initialisationZones =
                 [ zone_name \in DOMAIN st.initialisationZones |->
                     initialisationZone(st.initialisationZones[zone_name], st) ] ]
        ELSE st )
    EXCEPT !.initialisationZonesPresent = TRUE ]

\* CfdCaseWriterFoam.processInitialisationZoneProperties
processInitialisationZoneProperties(st) ==
  IF st.solver.SolverName[1] \in AlphaSolvers
    THEN [ st EXCEPT !.initialisationZones =
             [ zone_name \in DOMAIN st.initialisationZones |->
                 initialisationZone(st.initialisationZones[zone_name], st) ] ]
    ELSE st

ProcessInitialisationZoneProperties ==
  /\ pc = "initZones"
  /\ settings' = processInitialisationZoneProperties(settings)
  /\ Goto("patches", "processInitialisationZoneProperties")
  /\ UNCHANGED <<doc, caseDir, consoleVars>>

\* writeCase line "createPatchesFromSnappyBaffles = False" and
\* CfdCaseWriterFoam.setupPatchNames: one patch entry per boundary object,
\* named after its position in the boundary group, and the default faces.
setupPatchNames(st, bc_group, snappy) ==
  [ st EXCEPT
      !.createPatches =
        Some([ l \in Range(bcLabels(bc_group)) \cup { <<"defaultFaces">> } |->
                 IF l = <<"defaultFaces">> THEN 0
                 ELSE Max({ i \in DOMAIN bc_group : bc_group[i].Label = l }) ]),
      !.createPatchesFromSnappyBaffles = Some(snappy /\ bafflesPresent(bc_group)) ]

SetupPatchNames ==
  /\ pc = "patches"
  /\ settings' = setupPatchNames(settings, doc.bcs, doc.snappyHexMesh)
  /\ Goto("template", "setupPatchNames")
  /\ UNCHANGED <<doc, caseDir, consoleVars>>

\* writeCase, the TemplateBuilder call and the end: the case files are
\* written from the settings.
BuildTemplate ==
  /\ pc = "template"
  /\ caseDir' = "written"
  /\ Goto("done", "TemplateBuilder")
  /\ UNCHANGED <<doc, settings, consoleVars>>

\* ------------------------------------------------------ the analyses checked
\* Sequences over S of length at most n.
SeqUpTo(S, n) == UNION { [1..m -> S] : m \in 0..n }

Phases == {"Single", "FreeSurface", "Eulerian"}
Flows == {"Incompressible", "Compressible", "HighMachCompressible", "Isothermal"}
Thermals == {"None", "Energy"}
Times == {"Steady", "Transient"}
CoreCounts == {0, 1, 2, 8}

Materials(n) == [ i \in 1..n |-> BaseMaterial(i) ]
DefaultLabels == << <<"a">>, <<"b">>, <<"c">>, <<"d">> >>

PorousChoices == { <<>>, << BasePorousZone("pz", "DarcyForchheimer") >> }
SecondKinds ==
  ScriptedKinds \cup { <<"baffle", "porousBaffle">>, <<"outlet", "staticPressureOutlet">> }

\* An analysis that differs from the base in what solver selection reads:
\* the physics model, the number of materials, porous zones, a baffle
\* boundary and the parallel settings.
SolverDoc(ph, fl, th, ti, n, pz, kind, par, cores) ==
  [ BaseDoc EXCEPT
      !.physics = [ BasePhysics EXCEPT !.Phase = ph, !.Flow = fl, !.Thermal = th, !.Time = ti ],
      !.materials = Materials(n),
      !.porousZones = pz,
      !.bcs = << BaseBoundary(<<"a">>, <<"inlet", "uniformVelocityInlet">>, 1),
                 BaseBoundary(<<"b">>, kind, 2) >>,
      !.solver = [ Parallel |-> par, ParallelCores |-> cores ] ]

\* An analysis that differs in the boundary labels and in what writeCase
\* checks before it reads them.
LabelDoc(path, mesh, labels) ==
  [ BaseDoc EXCEPT
      !.pathExists = path, !.meshPresent = mesh,
      !.bcs = [ i \in DOMAIN labels |-> BaseBoundary(labels[i], <<"wall", "fixedWall">>, i) ] ]

ZoneChoices ==
  { <<>>, << BaseZone("z") >>,
    << [ BaseZone("z") EXCEPT !.References = << <<"Gone", "">> >> ] >> }
Correlations == {"DarcyForchheimer", "Jakob", "Ergun"}
PorousZoneChoices == { <<>> } \cup { << BasePorousZone("pz", c) >> : c \in Correlations }
InitZoneChoices == { <<>>, << BaseInitZone("iz") >> }

\* An analysis that differs in what is written to the case folder and in the
\* steps that follow clearCase.
FolderDoc(zs, pz, iz, sn) ==
  [ BaseDoc EXCEPT !.zones = zs, !.porousZones = pz, !.initZones = iz, !.snappyHexMesh = sn ]

OtherKinds == { <<"wall", "fixedWall">>, <<"open", "farField">> }

\* An analysis that differs in the initial conditions: which values are
\* copied from which boundary, and the type of one boundary (the j-th) among
\* MaxBoundaries.
InitialDoc(fl, j, kind, other, useU, bU, useP, bP, pot) ==
  [ BaseDoc EXCEPT
      !.physics = [ BasePhysics EXCEPT !.Flow = fl ],
      !.bcs = [ i \in 1..MaxBoundaries |->
                  BaseBoundary(DefaultLabels[i], IF i = j THEN kind ELSE other, i) ],
      !.initial = [ BaseInitial EXCEPT
                      !.UseInletUValues = useU, !.BoundaryU = bU,
                      !.UseOutletPValue = useP, !.BoundaryP = bP,
                      !.PotentialFlowP = pot ] ]

\* Every sub-type of the BoundarySubType enumeration (all_subtypes).
AllSubTypes == UNION { Range(SUBTYPES[i]) : i \in DOMAIN SUBTYPES }

\* An analysis that differs in what the temperature copy reads: the thermal
\* model, the source link, and the BoundaryType, BoundarySubType and
\* ThermalBoundaryType of the first boundary (three independent enumeration
\* properties).  The flow is compressible, for which solver selection
\* accepts an energy model.
ThermalDoc(th, btype, sub, tbt, useT, bT) ==
  [ BaseDoc EXCEPT
      !.physics = [ BasePhysics EXCEPT !.Flow = "Compressible", !.Thermal = th ],
      !.bcs = [ i \in 1..MaxBoundaries |->
                  IF i = 1
                    THEN [ BaseBoundary(DefaultLabels[i], <<btype, sub>>, i)
                             EXCEPT !.ThermalBoundaryType = tbt ]
                    ELSE BaseBoundary(DefaultLabels[i], <<"wall", "fixedWall">>, i) ],
      !.initial = [ BaseInitial EXCEPT !.UseInletTemperatureValue = useT, !.BoundaryT = bT ] ]

\* An analysis that differs in what the turbulence copy reads: whether the
\* physics model names a turbulence model, the source link, and the sub-type
\* and turbulence specification of the first boundary.
TurbulenceDoc(model, kind, tspec, useTurb, bTurb) ==
  [ BaseDoc EXCEPT
      !.physics = [ BasePhysics EXCEPT !.Turbulence = IF model = Absent THEN "Laminar" ELSE "RANS",
                                       !.TurbulenceModel = model ],
      !.bcs = [ i \in 1..MaxBoundaries |->
                  IF i = 1
                    THEN [ BaseBoundary(DefaultLabels[i], kind, i)
                             EXCEPT !.TurbulenceInletSpecification = tspec ]
                    ELSE BaseBoundary(DefaultLabels[i], <<"wall", "fixedWall">>, i) ],
      !.initial = [ BaseInitial EXCEPT !.UseInletTurbulenceValues = useTurb,
                                       !.BoundaryTurb = bTurb ] ]

\* An analysis that differs in the physics model, the materials and porous
\* zones, and in whether potential pressure initialisation is requested.
PotentialDoc(ph, fl, ti, n, pz, pot) ==
  [ BaseDoc EXCEPT
      !.physics = [ BasePhysics EXCEPT !.Phase = ph, !.Flow = fl, !.Time = ti ],
      !.materials = Materials(n),
      !.porousZones = pz,
      !.initial = [ BaseInitial EXCEPT !.PotentialFlowP = pot ] ]

\* The volume-fraction mappings tried (material name to fraction, a text
\* quantity in tenths): empty, the first two given, one given, all three
\* given, a name that is no material, and fractions that exceed one.
FractionPool ==
  { <<>>,
    [ water |-> Str(3), air |-> Str(2) ],
    [ water |-> Str(3) ],
    [ water |-> Str(3), air |-> Str(2), oil |-> Str(9) ],
    [ air |-> Str(2), steam |-> Str(4) ],
    [ water |-> Str(7), air |-> Str(6) ] }

MaterialNames == { BaseMaterial(i).Label : i \in 1..MaxMaterials }

\* An initialisation zone without and with volume fractions.
FractionZones(fr) ==
  { <<>>, << BaseInitZone("iz") >>, << SetKey(BaseInitZone("iz"), "VolumeFractions", fr) >> }

\* A transient free-surface analysis that differs in the material labels
\* (Label is not checked for duplicates) and in the volume fractions of the
\* boundaries, the initial conditions and an initialisation zone.
FractionsDoc(names, fr, iz) ==
  [ BaseDoc EXCEPT
      !.physics = [ BasePhysics EXCEPT !.Phase = "FreeSurface", !.Time = "Transient" ],
      !.materials = [ i \in DOMAIN names |-> [ BaseMaterial(i) EXCEPT !.Label = names[i] ] ],
      !.bcs = << [ BaseBoundary(<<"a">>, <<"inlet", "uniformVelocityInlet">>, 1)
                     EXCEPT !.VolumeFractions = fr ],
                 BaseBoundary(<<"b">>, <<"outlet", "staticPressureOutlet">>, 2) >>,
      !.initial = [ BaseInitial EXCEPT !.VolumeFractions = fr ],
      !.initZones = iz ]

\* An analysis with one Jakob porous zone that differs in the tube spacing
\* (the outer diameter is 2) and in the turbulence setting: an inviscid
\* model makes the kinematic viscosity of the material 0.
JakobDoc(spacing, turb) ==
  [ BaseDoc EXCEPT
      !.physics = [ BasePhysics EXCEPT !.Turbulence = turb ],
      !.porousZones = << [ BasePorousZone("pz", "Jakob") EXCEPT !.TubeSpacing = spacing ] >> ]

\* The DirectionFace texts tried: empty, a planar face, another planar face,
\* a curved face, an edge, a face that does not exist, an object that does
\* not exist, an object without a face part, an empty face name, an empty
\* object name.
DirectionFaces ==
  { <<>>, <<"Box", ":", "Face1">>, <<"Box", ":", "Face2">>, <<"Box", ":", "Face3">>,
    <<"Box", ":", "Edge1">>, <<"Box", ":", "Face9">>, <<"Gone", ":", "Face1">>,
    <<"Box">>, <<"Box", ":">>, <<":", "Face1">> }

\* The References lists tried: none, and one planar face.
ReferenceLists == { <<>>, << <<"Box", "Face2">> >> }

\* An analysis that differs in how the velocity of the first boundary (a
\* uniform-velocity inlet) is given, and in whether the initial velocity is
\* copied from it.
DirectionDoc(cart, df, refs, rev, useU) ==
  [ BaseDoc EXCEPT
      !.bcs = << [ BaseBoundary(<<"a">>, <<"inlet", "uniformVelocityInlet">>, 1) EXCEPT
                     !.VelocityIsCartesian = cart, !.VelocityMag = 5,
                     !.DirectionFace = df, !.References = refs, !.ReverseNormal = rev ],
                 BaseBoundary(<<"b">>, <<"outlet", "staticPressureOutlet">>, 2) >>,
      !.initial = [ BaseInitial EXCEPT !.UseInletUValues = useU, !.BoundaryU = 1 ] ]

\* A material property map with every property processFluidProperties reads.
FullMaterial ==
  [ Density |-> Str(2), DynamicViscosity |-> Str(4), MolarMass |-> Str(29), Cp |-> Str(1000),
    SutherlandTemperature |-> Str(110), SutherlandRefViscosity |-> Str(18),
    SutherlandRefTemperature |-> Str(273) ]

\* An analysis whose one material holds only the properties of a subset.
MaterialDoc(present, turb, fl) ==
  [ BaseDoc EXCEPT
      !.physics = [ BasePhysics EXCEPT !.Turbulence = turb, !.Flow = fl ],
      !.materials = << [ Label |-> "water",
                         Material |-> [ x \in present |-> FullMaterial[x] ] ] >> ]

\* The labels porous zones are given; nothing keeps two zones from sharing one.
PorousLabels == {"pz", "pq"}

\* An analysis with two porous zones that differ in label, correlation and
\* coefficients.
PorousDoc(l1, c1, l2, c2) ==
  [ BaseDoc EXCEPT
      !.porousZones = << BasePorousZone(l1, c1),
                         [ BasePorousZone(l2, c2) EXCEPT
                             !.D1 = 7, !.D2 = 8, !.D3 = 9, !.F1 = 10, !.F2 = 11, !.F3 = 12,
                             !.e1 = <<0, 1, 0>>, !.e3 = <<1, 0, 0>> ] >> ]

\* A single-phase analysis whose first boundary and initial conditions hold
\* volume fractions all the same.
SingleFractionsDoc(fr, tm, fl) ==
  [ BaseDoc EXCEPT
      !.physics = [ BasePhysics EXCEPT !.Time = tm, !.Flow = fl ],
      !.bcs = << [ BaseBoundary(<<"a">>, <<"inlet", "uniformVelocityInlet">>, 1)
                     EXCEPT !.VolumeFractions = fr ],
                 BaseBoundary(<<"b">>, <<"outlet", "staticPressureOutlet">>, 2) >>,
      !.initial = [ BaseInitial EXCEPT !.VolumeFractions = fr ] ]

\* The velocities, turbulence intensities (in hundredths) and length scales
\* (in tenths of a metre) tried for the boundary the turbulence is copied
\* from.
SourceVelocities == { <<10, 0, 0>>, <<3, 4, 0>> }
SourceIntensities == {5, 10}
SourceLengthScales == {1, 2}
SourceKinds == { <<"open", "farField">>, <<"inlet", "uniformVelocityInlet">> }

\* A turbulent analysis whose initial velocity and turbulence are copied from
\* the first boundary, specified by intensity and length scale.
IntensityDoc(kind, u, I, l) ==
  [ BaseDoc EXCEPT
      !.physics = [ BasePhysics EXCEPT !.Turbulence = "RANS",
                                       !.TurbulenceModel = Some("kOmegaSST") ],
      !.bcs = << [ BaseBoundary(<<"a">>, kind, 1) EXCEPT
                     !.Ux = u[1], !.Uy = u[2], !.Uz = u[3],
                     !.TurbulenceInletSpecification = "intensityAndLengthScale",
                     !.TurbulenceIntensity = I, !.TurbulenceLengthScale = l ],
                 BaseBoundary(<<"b">>, <<"outlet", "staticPressureOutlet">>, 2) >>,
      !.initial = [ BaseInitial EXCEPT !.UseInletUValues = TRUE, !.BoundaryU = 1,
                                       !.UseInletTurbulenceValues = TRUE,
                                       !.BoundaryTurb = 1 ] ]

\* The case folder before writeCase: absent, or holding an earlier case.
Folders == {"absent", "stale"}

InitSolver ==
  \E ph \in Phases, fl \in Flows, th \in Thermals, ti \in Times, n \in 0..MaxMaterials,
     pz \in PorousChoices, kind \in SecondKinds, par \in BOOLEAN, cores \in CoreCounts :
    /\ doc = SolverDoc(ph, fl, th, ti, n, pz, kind, par, cores)
    /\ caseDir = "absent"

\* The case folder lies inside the working directory.
InitLabels ==
  \E path \in BOOLEAN, mesh \in BOOLEAN, labels \in SeqUpTo(LabelPool, MaxBoundaries) :
    /\ doc = LabelDoc(path, mesh, labels)
    /\ caseDir \in IF path THEN Folders ELSE {"absent"}

InitFolder ==
  \E zs \in ZoneChoices, pz \in PorousZoneChoices, iz \in InitZoneChoices, sn \in BOOLEAN :
    /\ doc = FolderDoc(zs, pz, iz, sn)
    /\ caseDir \in Folders

InitInitial ==
  \E fl \in {"Incompressible", "Compressible"}, j \in 1..MaxBoundaries, kind \in BoundaryKinds,
     other \in OtherKinds, useU \in BOOLEAN, bU \in 0..MaxBoundaries,
     useP \in BOOLEAN, bP \in 0..MaxBoundaries, pot \in BOOLEAN :
    /\ doc = InitialDoc(fl, j, kind, other, useU, bU, useP, bP, pot)
    /\ caseDir = "absent"

InitThermal ==
  \E th \in Thermals, btype \in Range(BOUNDARY_TYPES), sub \in AllSubTypes,
     tbt \in Range(THERMAL_BOUNDARY_TYPES), useT \in BOOLEAN, bT \in 0..MaxBoundaries :
    /\ doc = ThermalDoc(th, btype, sub, tbt, useT, bT)
    /\ caseDir = "absent"

InitTurbulence ==
  \E model \in { Absent, Some("kOmegaSST") }, kind \in BoundaryKinds,
     tspec \in Range(TURBULENT_INLET_SPEC), useTurb \in BOOLEAN, bTurb \in 0..MaxBoundaries :
    /\ doc = TurbulenceDoc(model, kind, tspec, useTurb, bTurb)
    /\ caseDir = "absent"

InitPotential ==
  \E ph \in Phases, fl \in Flows, ti \in Times, n \in 0..MaxMaterials,
     pz \in PorousChoices, pot \in BOOLEAN :
    /\ doc = PotentialDoc(ph, fl, ti, n, pz, pot)
    /\ caseDir = "absent"

InitFractions ==
  \E n \in 2..MaxMaterials, fr \in FractionPool :
    \E names \in [1..n -> MaterialNames], iz \in FractionZones(fr) :
      /\ doc = FractionsDoc(names, fr, iz)
      /\ caseDir = "absent"

InitJakob ==
  \E spacing \in 1..4, turb \in {"Laminar", "Inviscid"} :
    /\ doc = JakobDoc(spacing, turb)
    /\ caseDir = "absent"

InitDirection ==
  \E cart \in BOOLEAN, df \in DirectionFaces, refs \in ReferenceLists, rev \in BOOLEAN,
     useU \in BOOLEAN :
    /\ doc = DirectionDoc(cart, df, refs, rev, useU)
    /\ caseDir = "absent"

InitMaterial ==
  \E present \in SUBSET DOMAIN FullMaterial, turb \in {"Laminar", "Inviscid"},
     fl \in {"Incompressible", "Compressible"} :
    /\ doc = MaterialDoc(present, turb, fl)
    /\ caseDir = "absent"

InitPorous ==
  \E l1 \in PorousLabels, l2 \in PorousLabels, c1 \in Correlations, c2 \in Correlations :
    /\ doc = PorousDoc(l1, c1, l2, c2)
    /\ caseDir = "absent"

InitSingleFractions ==
  \E fr \in FractionPool, tm \in Times, fl \in Flows :
    /\ doc = SingleFractionsDoc(fr, tm, fl)
    /\ caseDir = "absent"

InitIntensity ==
  \E kind \in SourceKinds, u \in SourceVelocities, I \in SourceIntensities,
     l \in SourceLengthScales :
    /\ doc = IntensityDoc(kind, u, I, l)
    /\ caseDir = "absent"

Init ==
  /\ \/ InitSolver \/ InitLabels \/ InitFolder \/ InitInitial
     \/ InitThermal \/ InitTurbulence \/ InitPotential \/ InitFractions
     \/ InitJakob \/ InitDirection \/ InitMaterial \/ InitPorous
     \/ InitSingleFractions \/ InitIntensity
  /\ pc = "start"
  /\ settings = NoSettings
  /\ err = NoError
  /\ ran = <<>>
  /\ ConsoleConstructed

Next ==
  \/ CheckPreconditions
  \/ ValidateLabels
  \/ BuildSettings
  \/ ProcessSystemSettings
  \/ ProcessSolverSettings
  \/ ProcessFluidProperties
  \/ ProcessBoundaryConditions
  \/ ProcessInitialConditions
  \/ ClearCase
  \/ ExportZoneStlSurfaces
  \/ ProcessPorousZoneProperties
  \/ ProcessInitialisationZoneProperties
  \/ SetupPatchNames
  \/ BuildTemplate

Spec == Init /\ [][Next]_vars

\* ------------------------------------------------------ CfdConsoleProcess
\* No case is being written while the console process is looked at.
WriterIdle ==
  /\ doc = BaseDoc
  /\ pc = "start"
  /\ settings = NoSettings
  /\ err = NoError
  /\ caseDir = "absent"
  /\ ran = <<>>

\* A line of error output is the sequence of its space-separated words (the
\* empty sequence is a blank line); the words of the lines tried are such
\* that a prefix of words is a prefix of the text.
FATAL == <<"-->", "FOAM", "FATAL", "ERROR">>
FATALIO == <<"-->", "FOAM", "FATAL", "IO", "ERROR">>

\* str.startswith
startswith(errline, prefix) ==
  Len(errline) >= Len(prefix) /\ SubSeq(errline, 1, Len(prefix)) = prefix

\* errline.split(' ', 1): the first field and the rest, or the line alone
\* when it holds no space.
splitFirstField(errline) ==
  IF Len(errline) > 1 THEN << <<errline[1]>>, Tail(errline) >> ELSE << errline >>

\* "file:" in errline
containsFile(errline) == \E i \in DOMAIN errline : errline[i] = "file:"

\* errline.startswith(X) or (len(words) > 1 and words[1].startswith(X))
startsWithOrAfterField(errline, X) ==
  \/ startswith(errline, X)
  \/ Len(splitFirstField(errline)) > 1 /\ startswith(splitFirstField(errline)[2], X)

\* One piece added to ret: its text, the number of the input line it repeats
\* (0 for a heading), and whether a newline follows it.
Piece(text, line, nl) == [ text |-> text, line |-> line, nl |-> nl ]

\* processErrorOutput, "if self.print_next_error_lines > 0"; s holds
\* print_next_error_lines, print_next_error_file and ret.
printNextLines(s, errline, n) ==
  IF s.lines > 0
    THEN [ s EXCEPT !.ret = Append(@, Piece(errline, n, TRUE)), !.lines = @ - 1 ]
    ELSE s

\* processErrorOutput, "if self.print_next_error_file and "file:" in errline"
printNextFile(s, errline, n) ==
  IF s.file /\ containsFile(errline)
    THEN [ s EXCEPT !.ret = Append(@, Piece(errline, n, TRUE)), !.file = FALSE ]
    ELSE s

\* processErrorOutput, the if/elif chain on the start of the line.
scanHeadline(s, errline, n) ==
  IF startsWithOrAfterField(errline, FATAL)
    THEN [ s EXCEPT !.lines = 1,
                    !.ret = Append(@, Piece(<<"OpenFOAM fatal error:">>, 0, TRUE)) ]
  ELSE IF startsWithOrAfterField(errline, FATALIO)
    THEN [ s EXCEPT !.lines = 1, !.file = TRUE,
                    !.ret = Append(@, Piece(<<"OpenFOAM IO error:">>, 0, TRUE)) ]
  ELSE IF startswith(errline, <<"Fatal", "error:">>)
    THEN [ s EXCEPT !.ret = Append(@, Piece(errline, n, FALSE)) ]
  ELSE s

\* processErrorOutput, the body of the loop: blank lines are ignored.
scanLine(s, errline, n) ==
  IF Len(errline) > 0
    THEN scanHeadline(printNextFile(printNextLines(s, errline, n), errline, n), errline, n)
    ELSE s

\* processErrorOutput, "for errline in errlines"; the i-th line is input line
\* number base + i.
RECURSIVE scanLines(_, _, _, _)
scanLines(s, errlines, i, base) ==
  IF i > Len(errlines) THEN s
  ELSE scanLines(scanLine(s, errlines[i], base + i), errlines, i + 1, base)

\* The lines tried: blank, the two headlines, a headline after the field a
\* parallel run puts first, a line naming a file, a "Fatal error:" line, and
\* any other line.
ErrLines ==
  { <<>>, FATAL, <<"[0]">> \o FATAL, FATALIO, <<"file:", "x">>,
    <<"Fatal", "error:", "x">>, <<"x">>, <<"[0]", "x">> }

\* The texts tried, as err.split('\n') gives them: up to MaxErrLines lines.
MaxErrLines == 2
MaxFed == 3
ErrTexts == UNION { [ 1..n -> ErrLines ] : n \in 1..MaxErrLines }

\* CfdConsoleProcess.processErrorOutput: the message, or None.
ProcessErrorOutput ==
  \E errlines \in ErrTexts :
    /\ Len(fed) + Len(errlines) <= MaxFed
    /\ print_next_error_lines' =
         scanLines([ lines |-> print_next_error_lines, file |-> print_next_error_file,
                     ret |-> <<>> ], errlines, 1, Len(fed)).lines
    /\ print_next_error_file' =
         scanLines([ lines |-> print_next_error_lines, file |-> print_next_error_file,
                     ret |-> <<>> ], errlines, 1, Len(fed)).file
    /\ returned' =
         Append(returned,
                IF Len(scanLines([ lines |-> print_next_error_lines,
                                   file |-> print_next_error_file,
                                   ret |-> <<>> ], errlines, 1, Len(fed)).ret) > 0
                  THEN Some(scanLines([ lines |-> print_next_error_lines,
                                        file |-> print_next_error_file,
                                        ret |-> <<>> ], errlines, 1, Len(fed)).ret)
                  ELSE Absent)
    /\ fed' = fed \o errlines
    /\ UNCHANGED <<writerVars, readerVars>>

\* CfdConsoleProcess.start: the scraping state is reset and a new run begins.
Start ==
  /\ print_next_error_lines' = 0
  /\ print_next_error_file' = FALSE
  /\ fed' = <<>>
  /\ returned' = <<>>
  /\ UNCHANGED <<writerVars, readerVars>>

ScrapeInit == WriterIdle /\ ConsoleConstructed

ScrapeNext ==
  \/ Start
  \/ ProcessErrorOutput

ScrapeSpec == ScrapeInit /\ [][ScrapeNext]_vars

\* The readers.  Qt delivers readyReadStandardOutput and
\* readyReadStandardError in the thread of the GUI, when its event loop runs:
\* while no reader is running, or inside a reader where it calls a hook or
\* FreeCAD.Gui.updateGui().  A call in progress is a frame: the reader, the
\* statement it is at ("loop", "hook" or "gui") and the lines in text.
Channels == {"StandardOutput", "StandardError"}
MaxWritten == 3
MaxDepth == 3

Frame(fn, at, text) == [ fn |-> fn, at |-> at, text |-> text ]
Top == stack[Len(stack)]
Return == SubSeq(stack, 1, Len(stack) - 1)
Continue(at, text) == [ stack EXCEPT ![Len(stack)] = Frame(Top.fn, at, text) ]

\* The event loop can run: no reader is running, or the innermost one is in a
\* hook or in updateGui.
CanDeliver == IF stack = <<>> THEN TRUE ELSE Top.at \in {"hook", "gui"}

\* The process writes a complete line to one of its two streams.
ProcessWrites ==
  \E c \in Channels :
    /\ written < MaxWritten
    /\ buffered' = [ buffered EXCEPT ![c] = Append(@, c) ]
    /\ written' = written + 1
    /\ UNCHANGED <<writerVars, scrapeVars, channel, stack>>

\* readStdout is called: text = "".
ReadStdout ==
  /\ CanDeliver
  /\ Len(stack) < MaxDepth
  /\ stack' = Append(stack, Frame("readStdout", "loop", <<>>))
  /\ UNCHANGED <<writerVars, scrapeVars, channel, buffered, written>>

\* readStdout, the body of "while self.process.canReadLine()": a line of the
\* current read channel is added to text.
StdoutReadLine ==
  /\ stack # <<>>
  /\ Top.fn = "readStdout" /\ Top.at = "loop"
  /\ buffered[channel] # <<>>
  /\ stack' = Continue("loop", Append(Top.text, Head(buffered[channel])))
  /\ buffered' = [ buffered EXCEPT ![channel] = Tail(@) ]
  /\ UNCHANGED <<writerVars, scrapeVars, channel, written>>

\* readStdout, canReadLine() is false: "if text:" goes on to print the text
\* and call the hook, and otherwise the reader returns.
StdoutDrained ==
  /\ stack # <<>>
  /\ Top.fn = "readStdout" /\ Top.at = "loop"
  /\ buffered[channel] = <<>>
  /\ stack' = IF Top.text # <<>> THEN Continue("hook", Top.text) ELSE Return
  /\ UNCHANGED <<writerVars, scrapeVars, channel, buffered, written>>

\* readStderr is called: setReadChannel(QProcess.StandardError), text = "".
ReadStderr ==
  /\ CanDeliver
  /\ Len(stack) < MaxDepth
  /\ channel' = "StandardError"
  /\ stack' = Append(stack, Frame("readStderr", "loop", <<>>))
  /\ UNCHANGED <<writerVars, scrapeVars, buffered, written>>

\* readStderr, the body of "while self.process.canReadLine()".
StderrReadLine ==
  /\ stack # <<>>
  /\ Top.fn = "readStderr" /\ Top.at = "loop"
  /\ buffered[channel] # <<>>
  /\ stack' = Continue("loop", Append(Top.text, Head(buffered[channel])))
  /\ buffered' = [ buffered EXCEPT ![channel] = Tail(@) ]
  /\ UNCHANGED <<writerVars, scrapeVars, channel, written>>

\* readStderr when canReadLine() is false, with the alternative that leaves
\* the read channel as it is.
StderrDrainedKeepsChannel ==
  /\ stack # <<>>
  /\ Top.fn = "readStderr" /\ Top.at = "loop"
  /\ buffered[channel] = <<>>
  /\ stack' = IF Top.text # <<>> THEN Continue("hook", Top.text) ELSE Return
  /\ UNCHANGED <<writerVars, scrapeVars, channel, buffered, written>>

\* readStderr, canReadLine() is false: setReadChannel(QProcess.StandardOutput),
\* then "if text:" goes on to the hook, and otherwise the reader returns.
StderrDrained ==
  /\ stack # <<>>
  /\ Top.fn = "readStderr" /\ Top.at = "loop"
  /\ buffered[channel] = <<>>
  /\ channel' = "StandardOutput"
  /\ stack' = IF Top.text # <<>> THEN Continue("hook", Top.text) ELSE Return
  /\ UNCHANGED <<writerVars, scrapeVars, buffered, written>>

\* Either reader: the hook (and the printing of the text) is done, and
\* FreeCAD.Gui.updateGui() is called.
HookReturns ==
  /\ stack # <<>>
  /\ Top.at = "hook"
  /\ stack' = Continue("gui", Top.text)
  /\ UNCHANGED <<writerVars, scrapeVars, channel, buffered, written>>

\* Either reader: updateGui() returns, and so does the reader.
UpdateGuiReturns ==
  /\ stack # <<>>
  /\ Top.at = "gui"
  /\ stack' = Return
  /\ UNCHANGED <<writerVars, scrapeVars, channel, buffered, written>>

ReaderInit == WriterIdle /\ ConsoleConstructed

ReaderNext ==
  \/ ProcessWrites
  \/ ReadStdout
  \/ StdoutReadLine
  \/ StdoutDrained
  \/ ReadStderr
  \/ StderrReadLine
  \/ StderrDrained
  \/ HookReturns
  \/ UpdateGuiReturns

ReaderSpec == ReaderInit /\ [][ReaderNext]_vars

\* ================================================================ properties
Ran(step) == \E i \in DOMAIN ran : ran[i] = step
FailedAt(step) == pc = "failed" /\ ran # <<>> /\ ran[Len(ran)] = step
Processors ==
  { "processSystemSettings", "processSolverSettings", "processFluidProperties",
    "processBoundaryConditions", "processInitialConditions", "processPorousZoneProperties",
    "processInitialisationZoneProperties" }
NoProcessorRan == \A i \in DOMAIN ran : ran[i] \notin Processors

\* The decision table of solver selection, its rules tried top-down and the
\* first that matches taken: the solver, or the failure and its message.
DecisionTable(Phase, Flow, Thermal, Time, materialCount, porous) ==
  IF Phase = "Single" /\ materialCount # 1 THEN <<"fail", "OnlyOneMaterial">>
  ELSE IF Phase = "Single" /\ Flow = "Incompressible" /\ Thermal # "None"
    THEN <<"fail", "OnlyIsothermalIncompressible">>
  ELSE IF Phase = "Single" /\ Flow = "Incompressible" /\ Thermal = "None"
    THEN IF Time = "Transient" THEN <<"solver", "pimpleFoam">>
         ELSE IF porous THEN <<"solver", "porousSimpleFoam">>
         ELSE <<"solver", "simpleFoam">>
  ELSE IF Phase = "Single" /\ Flow = "Compressible"
    THEN IF Time = "Transient" THEN <<"solver", "buoyantPimpleFoam">>
         ELSE <<"solver", "buoyantSimpleFoam">>
  ELSE IF Phase = "Single" /\ Flow = "HighMachCompressible" THEN <<"solver", "hisa">>
  ELSE IF Phase = "FreeSurface" /\ Time # "Transient"
    THEN <<"fail", "OnlyTransientFreeSurface">>
  ELSE IF Phase = "FreeSurface" /\ Thermal # "None"
    THEN <<"fail", "OnlyIsothermalFreeSurface">>
  ELSE IF Phase = "FreeSurface" /\ materialCount = 2 THEN <<"solver", "interFoam">>
  ELSE IF Phase = "FreeSurface" /\ materialCount > 2 THEN <<"solver", "multiphaseInterFoam">>
  ELSE IF Phase = "FreeSurface" THEN <<"fail", "AtLeastTwoMaterials">>
  ELSE IF Phase = "Single" THEN <<"fail", "FlowNotSupported">>
  ELSE <<"fail", "PhaseNotSupported">>

\* A porous zone exists or a boundary is a porous baffle.
PorousPresent ==
  \/ Len(doc.porousZones) > 0
  \/ \E i \in DOMAIN doc.bcs :
       doc.bcs[i].BoundaryType = "baffle" /\ doc.bcs[i].BoundarySubType = "porousBaffle"

Expected ==
  DecisionTable(doc.physics.Phase, doc.physics.Flow, doc.physics.Thermal, doc.physics.Time,
                Len(doc.materials), PorousPresent)

\* C1: once solver selection has run, the settings hold exactly the solver
\* the decision table names for the physics model, the material count and the
\* porous presence, and for every combination the table gives no solver the
\* case-write has failed in solver selection with an unsupported-physics
\* error (a RuntimeError) and no solver name is set; there is never a
\* success without a solver name.
C1_SolverTable ==
  Ran("processSolverSettings") =>
    IF Expected[1] = "solver"
      THEN /\ settings.solver.SolverName = Some(Expected[2])
           /\ ~FailedAt("processSolverSettings")
      ELSE /\ FailedAt("processSolverSettings")
           /\ err.type = "RuntimeError"
           /\ err.msg = Expected[2]
           /\ settings.solver.SolverName = Absent

C1_Witness ==
  /\ Ran("processSolverSettings")
  /\ doc.physics.Phase = "FreeSurface"
  /\ Len(doc.materials) = 3
  /\ settings.solver.SolverName = Some("multiphaseInterFoam")

\* C2: the failures of solver selection follow the first matching rule: a
\* single phase with a material count other than one fails with the
\* one-material error whatever the flow, thermal and time settings are; a
\* free surface that is not transient fails with the only-transient error
\* whatever the thermal setting and the material count are; a transient free
\* surface with a thermal model fails with the only-isothermal error
\* whatever the material count is.
C2_FirstMatchWins ==
  Ran("processSolverSettings") =>
    /\ (doc.physics.Phase = "Single" /\ Len(doc.materials) # 1) =>
         (FailedAt("processSolverSettings") /\ err.msg = "OnlyOneMaterial")
    /\ (doc.physics.Phase = "FreeSurface" /\ doc.physics.Time # "Transient") =>
         (FailedAt("processSolverSettings") /\ err.msg = "OnlyTransientFreeSurface")
    /\ (doc.physics.Phase = "FreeSurface" /\ doc.physics.Time = "Transient"
          /\ doc.physics.Thermal # "None") =>
         (FailedAt("processSolverSettings") /\ err.msg = "OnlyIsothermalFreeSurface")

C2_Witness ==
  /\ FailedAt("processSolverSettings")
  /\ doc.physics.Phase = "Single"
  /\ doc.physics.Flow = "Isothermal"
  /\ doc.physics.Thermal = "Energy"
  /\ Len(doc.materials) = 0
  /\ err.msg = "OnlyOneMaterial"

\* C3: for a single-phase, incompressible, isothermal analysis with exactly
\* one material, the steady solver is porousSimpleFoam exactly when a porous
\* zone exists or a boundary has type baffle and sub-type porousBaffle, and
\* simpleFoam otherwise; the transient solver is pimpleFoam either way.
C3_PorousSteady ==
  ( /\ Ran("processSolverSettings")
    /\ doc.physics.Phase = "Single"
    /\ doc.physics.Flow = "Incompressible"
    /\ doc.physics.Thermal = "None"
    /\ Len(doc.materials) = 1 ) =>
    /\ doc.physics.Time = "Steady" =>
         /\ settings.solver.SolverName \in { Some("porousSimpleFoam"), Some("simpleFoam") }
         /\ settings.solver.SolverName = Some("porousSimpleFoam") <=> PorousPresent
    /\ doc.physics.Time = "Transient" => settings.solver.SolverName = Some("pimpleFoam")

C3_Witness ==
  /\ Ran("processSolverSettings")
  /\ doc.physics.Time = "Steady"
  /\ doc.porousZones = <<>>
  /\ \E i \in DOMAIN doc.bcs : doc.bcs[i].BoundarySubType = "porousBaffle"
  /\ settings.solver.SolverName = Some("porousSimpleFoam")

SelectionMessages ==
  { "OnlyOneMaterial", "OnlyIsothermalIncompressible", "FlowNotSupported",
    "OnlyTransientFreeSurface", "OnlyIsothermalFreeSurface", "AtLeastTwoMaterials",
    "PhaseNotSupported" }

\* C4: once solver-settings processing has run, ParallelCores is the larger
\* of the requested count and 2 when a parallel run is requested, and the
\* requested count otherwise; the correction raises nothing (a failure of
\* this step is a failure of solver selection).
C4_ParallelCores ==
  Ran("processSolverSettings") =>
    /\ settings.solver.ParallelCores =
         IF doc.solver.Parallel
           THEN IF doc.solver.ParallelCores > 2 THEN doc.solver.ParallelCores ELSE 2
           ELSE doc.solver.ParallelCores
    /\ settings.solver.Parallel = doc.solver.Parallel
    /\ FailedAt("processSolverSettings") => err.msg \in SelectionMessages

C4_Witness ==
  /\ pc = "done"
  /\ doc.solver.Parallel
  /\ doc.solver.ParallelCores = 1
  /\ settings.solver.ParallelCores = 2

\* Two boundaries carry the same label.
DuplicateLabel ==
  \E i, j \in DOMAIN doc.bcs : i # j /\ doc.bcs[i].Label = doc.bcs[j].Label
\* A boundary label holds a space.
SpaceInLabel ==
  \E i \in DOMAIN doc.bcs : \E k \in DOMAIN doc.bcs[i].Label : doc.bcs[i].Label[k] = " "

\* C5, as claimed: when two boundaries carry the same label, a failure of
\* writeCase is the duplicate-label validation error, and the settings are
\* not built and no processor has run.
C5_DuplicateFirst ==
  DuplicateLabel =>
    /\ pc = "failed" => (err.type = "ValueError" /\ err.msg = "LabelDuplicated")
    /\ ~settings.built
    /\ NoProcessorRan

\* C5, amended: when two boundaries carry the same label, writeCase never
\* builds the settings, runs no processor and does not complete; it fails in
\* the checks that come first, which are, in this order, the working
\* directory, the mesh object, a space in any label, and then the duplicate
\* label, whose error names the duplicated label.
C5_DuplicateAfterEarlierChecks ==
  DuplicateLabel =>
    /\ ~settings.built
    /\ NoProcessorRan
    /\ pc \in {"start", "validate", "failed"}
    /\ Ran("validate") => pc = "failed"
    /\ pc = "failed" =>
         IF ~doc.pathExists THEN err.type = "IOError"
         ELSE IF ~doc.meshPresent THEN err.msg = "NoMeshObject"
         ELSE IF SpaceInLabel THEN err.type = "ValueError" /\ err.msg = "LabelHasSpace"
         ELSE /\ err.type = "ValueError"
              /\ err.msg = "LabelDuplicated"
              /\ \E i, j \in DOMAIN doc.bcs :
                   i # j /\ doc.bcs[i].Label = doc.bcs[j].Label /\ err.arg = <<doc.bcs[i].Label>>

C5_Witness ==
  /\ DuplicateLabel
  /\ FailedAt("validate")
  /\ err.msg = "LabelDuplicated"
  /\ err.arg = << <<"a">> >>

\* C6: whenever the settings exist, the boundary labels are pairwise
\* distinct and hold no space, and the 'boundaries' mapping has one entry
\* per boundary; a label list that breaks either condition makes the label
\* validation fail with a ValueError, the settings never being built.
C6_LabelsValid ==
  /\ settings.built =>
       /\ ~DuplicateLabel
       /\ ~SpaceInLabel
       /\ Cardinality(DOMAIN settings.boundaries) = Len(doc.bcs)
       /\ \A i \in DOMAIN doc.bcs : settings.boundaries[doc.bcs[i].Label].Label = doc.bcs[i].Label
  /\ (DuplicateLabel \/ SpaceInLabel) =>
       /\ ~settings.built
       /\ Ran("validate") => (FailedAt("validate") /\ err.type = "ValueError")

C6_Witness ==
  /\ settings.built
  /\ Len(doc.bcs) = MaxBoundaries
  /\ doc.bcs[1].Label = <<"b">>
  /\ pc = "done"

\* C7, as claimed: when writeCase has failed, the case folder is absent or
\* empty.
C7_AllOrNothing ==
  pc = "failed" => caseDir \in {"absent", "empty"}

\* C8, as claimed: a failure of initial-condition or porous-zone processing
\* carries a message that includes the offending label or value.
C8_MessageNamesOffender ==
  (FailedAt("processInitialConditions") \/ FailedAt("processPorousZoneProperties")) =>
    err.arg # <<>>

\* The steps of initial-condition processing that come before the velocity
\* copy did not raise.
PotentialFlowRaised ==
  FailedAt("processInitialConditions") /\ err.msg = "NoPotentialPressureInitialisation"
VelocityRaised ==
  /\ FailedAt("processInitialConditions")
  /\ err.msg \in {"BoundaryNotAppropriateForVelocity", "NoBoundaryForVelocity"}
PressureRaised ==
  /\ FailedAt("processInitialConditions")
  /\ err.msg \in {"BoundaryNotAppropriateForPressure", "NoBoundaryForPressure"}

SourceBoundary(i) == settings.boundaries[doc.bcs[i].Label]

\* C9: with UseInletUValues set, the velocity copy succeeds exactly when a
\* source boundary is designated and its sub-type is uniformVelocityInlet or
\* farField, and the initial Ux/Uy/Uz are then the source boundary's; with no
\* source it fails, and with another sub-type it fails with the
\* inappropriate-boundary error; on both failures the initial velocity is
\* the one the initial conditions gave.
C9_CopyVelocity ==
  ( /\ Ran("processInitialConditions")
    /\ doc.initial.UseInletUValues
    /\ ~PotentialFlowRaised ) =>
    LET src == doc.initial.BoundaryU
        iv == settings.initialValues
    IN IF src # 0 /\ doc.bcs[src].BoundarySubType \in {"uniformVelocityInlet", "farField"}
         THEN /\ ~VelocityRaised
              /\ iv.Ux = SourceBoundary(src).Ux
              /\ iv.Uy = SourceBoundary(src).Uy
              /\ iv.Uz = SourceBoundary(src).Uz
         ELSE /\ FailedAt("processInitialConditions")
              /\ err.type = "RuntimeError"
              /\ err.msg = IF src = 0 THEN "NoBoundaryForVelocity"
                           ELSE "BoundaryNotAppropriateForVelocity"
              /\ iv.Ux = doc.initial.Ux
              /\ iv.Uy = doc.initial.Uy
              /\ iv.Uz = doc.initial.Uz

C9_Witness ==
  /\ pc = "done"
  /\ doc.initial.UseInletUValues
  /\ doc.initial.BoundaryU = 2
  /\ doc.bcs[2].BoundarySubType = "farField"
  /\ doc.bcs[1].BoundarySubType = "staticPressureOutlet"
  /\ settings.initialValues.Ux = 21

\* C10: with UseOutletPValue set and a source boundary designated, the
\* initial Pressure becomes the source boundary's Pressure exactly when its
\* sub-type is staticPressureOutlet, totalPressureOpening, totalPressureInlet,
\* staticPressureInlet or farField; for every other sub-type the step fails
\* and the initial Pressure stays the one the initial conditions gave.
C10_CopyPressure ==
  ( /\ Ran("processInitialConditions")
    /\ doc.initial.UseOutletPValue
    /\ doc.initial.BoundaryP # 0
    /\ ~PotentialFlowRaised
    /\ ~VelocityRaised ) =>
    LET src == doc.initial.BoundaryP
        iv == settings.initialValues
    IN IF doc.bcs[src].BoundarySubType \in
            { "staticPressureOutlet", "totalPressureOpening", "totalPressureInlet",
              "staticPressureInlet", "farField" }
         THEN /\ ~PressureRaised
              /\ iv.Pressure = SourceBoundary(src).Pressure
              /\ iv.Pressure # doc.initial.Pressure
         ELSE /\ FailedAt("processInitialConditions")
              /\ err.msg = "BoundaryNotAppropriateForPressure"
              /\ iv.Pressure = doc.initial.Pressure

C10_Witness ==
  /\ pc = "done"
  /\ doc.initial.UseOutletPValue
  /\ doc.initial.BoundaryP = 1
  /\ doc.bcs[1].BoundarySubType = "totalPressureOpening"
  /\ settings.initialValues.Pressure = 120
\* The temperature copy raised.
TemperatureRaised ==
  /\ FailedAt("processInitialConditions")
  /\ err.msg \in {"InletNotAppropriateForTemperature", "NoneHasNoLabel"}

\* Initial-condition processing ran and no step before the temperature copy
\* raised.
ReachedTemperature ==
  /\ Ran("processInitialConditions")
  /\ FailedAt("processInitialConditions") => TemperatureRaised

\* C11, as claimed: the temperature copy takes effect only with an energy
\* model; it then copies the source's Temperature if the source has
\* (BoundaryType inlet and ThermalBoundaryType fixedValue) or BoundarySubType
\* farField, for every combination of the three, and fails otherwise.
C11_CopyTemperature ==
  ( /\ ReachedTemperature
    /\ doc.physics.Thermal = "Energy"
    /\ doc.initial.UseInletTemperatureValue
    /\ doc.initial.BoundaryT # 0 ) =>
    LET b == doc.bcs[doc.initial.BoundaryT]
    IN IF \/ b.BoundaryType = "inlet" /\ b.ThermalBoundaryType = "fixedValue"
          \/ b.BoundarySubType = "farField"
         THEN ~TemperatureRaised /\ settings.initialValues.Temperature = b.Temperature
         ELSE TemperatureRaised

\* C11, amended: without an energy model, or without
\* UseInletTemperatureValue, the initial Temperature is untouched and the
\* step raises nothing.  Otherwise the source's Temperature is copied exactly
\* when the source has BoundaryType inlet and ThermalBoundaryType fixedValue,
\* or has a BoundaryType other than inlet and BoundarySubType farField; in
\* every other case, an inlet-typed far field without a fixed value and a
\* missing source included, the step fails and the initial Temperature is
\* untouched.
C11_CopyTemperatureInletFirst ==
  ReachedTemperature =>
    IF doc.physics.Thermal = "Energy" /\ doc.initial.UseInletTemperatureValue
      THEN IF /\ doc.initial.BoundaryT # 0
              /\ LET b == doc.bcs[doc.initial.BoundaryT]
                 IN \/ b.BoundaryType = "inlet" /\ b.ThermalBoundaryType = "fixedValue"
                    \/ b.BoundaryType # "inlet" /\ b.BoundarySubType = "farField"
             THEN /\ ~TemperatureRaised
                  /\ settings.initialValues.Temperature =
                       doc.bcs[doc.initial.BoundaryT].Temperature
             ELSE /\ TemperatureRaised
                  /\ err.type = IF doc.initial.BoundaryT = 0 THEN "AttributeError"
                                ELSE "RuntimeError"
                  /\ settings.initialValues.Temperature = doc.initial.Temperature
      ELSE /\ ~TemperatureRaised
           /\ settings.initialValues.Temperature = doc.initial.Temperature

C11_Witness ==
  /\ pc = "done"
  /\ doc.physics.Thermal = "Energy"
  /\ doc.initial.UseInletTemperatureValue
  /\ doc.initial.BoundaryT = 1
  /\ doc.bcs[1].BoundaryType = "open"
  /\ doc.bcs[1].BoundarySubType = "farField"
  /\ doc.bcs[1].ThermalBoundaryType = "zeroGradient"
  /\ settings.initialValues.Temperature = 291
\* The turbulence copy raised.
TurbulenceRaised ==
  /\ FailedAt("processInitialConditions")
  /\ err.msg \in {"NoBoundaryForTurbulence", "InletUnsupportedForTurbulence",
                  "TurbulenceSpecUnsupported"}

\* Initial-condition processing ran and no step before the turbulence copy
\* raised.
ReachedTurbulence ==
  /\ Ran("processInitialConditions")
  /\ FailedAt("processInitialConditions") => TurbulenceRaised

\* The initial k and omega are the ones the initial conditions gave.
TurbulenceNotWritten ==
  /\ settings.initialValues.k = doc.initial.k
  /\ settings.initialValues.omega = doc.initial.omega

\* C12: the turbulence copy takes effect only when the physics model names a
\* turbulence model and UseInletTurbulenceValues is set.  It then fails when
\* no source boundary is designated; with the specification
\* TKEAndSpecDissipationRate it copies the source's k and omega for any
\* sub-type; with intensityAndLengthScale it computes k and omega when the
\* source sub-type is uniformVelocity or farField and fails otherwise; any
\* other specification fails.  On every failing path, and when the copy does
\* not take effect, the initial k and omega are not written.
C12_CopyTurbulence ==
  ReachedTurbulence =>
    IF doc.physics.TurbulenceModel # Absent /\ doc.initial.UseInletTurbulenceValues
      THEN IF doc.initial.BoundaryTurb = 0
             THEN /\ TurbulenceRaised /\ err.msg = "NoBoundaryForTurbulence"
                  /\ TurbulenceNotWritten
           ELSE LET b == SourceBoundary(doc.initial.BoundaryTurb)
                IN IF b.TurbulenceInletSpecification = "TKEAndSpecDissipationRate"
                     THEN /\ ~TurbulenceRaised
                          /\ settings.initialValues.k = [value |-> b.TurbulentKineticEnergy]
                          /\ settings.initialValues.omega = [value |-> b.SpecificDissipationRate]
                   ELSE IF b.TurbulenceInletSpecification = "intensityAndLengthScale"
                     THEN IF b.BoundarySubType \in {"uniformVelocity", "farField"}
                            THEN /\ ~TurbulenceRaised
                                 /\ "expr" \in DOMAIN settings.initialValues.k
                                 /\ "expr" \in DOMAIN settings.initialValues.omega
                            ELSE /\ TurbulenceRaised
                                 /\ err.msg = "InletUnsupportedForTurbulence"
                                 /\ TurbulenceNotWritten
                   ELSE /\ TurbulenceRaised /\ err.msg = "TurbulenceSpecUnsupported"
                        /\ TurbulenceNotWritten
      ELSE ~TurbulenceRaised /\ TurbulenceNotWritten

C12_Witness ==
  /\ FailedAt("processInitialConditions")
  /\ doc.physics.TurbulenceModel # Absent
  /\ doc.initial.UseInletTurbulenceValues
  /\ doc.initial.BoundaryTurb = 1
  /\ doc.bcs[1].TurbulenceInletSpecification = "intensityAndLengthScale"
  /\ doc.bcs[1].BoundarySubType = "totalPressureInlet"
  /\ err.msg = "InletUnsupportedForTurbulence"
  /\ TurbulenceNotWritten
\* C13: once initial-condition processing has run, it has failed with the
\* no-potential-initialisation error exactly when PotentialFlowP is requested
\* and the selected solver is none of simpleFoam, porousSimpleFoam,
\* pimpleFoam, hisa, which leaves buoyantSimpleFoam, buoyantPimpleFoam,
\* interFoam and multiphaseInterFoam; without the request the step raises
\* for no solver.
C13_PotentialFlow ==
  Ran("processInitialConditions") =>
    /\ PotentialFlowRaised <=>
         /\ doc.initial.PotentialFlowP
         /\ settings.solver.SolverName \notin
              { Some("simpleFoam"), Some("porousSimpleFoam"), Some("pimpleFoam"), Some("hisa") }
    /\ PotentialFlowRaised =>
         /\ err.type = "RuntimeError"
         /\ settings.solver.SolverName \in
              { Some("buoyantSimpleFoam"), Some("buoyantPimpleFoam"), Some("interFoam"),
                Some("multiphaseInterFoam") }

C13_Witness ==
  /\ pc = "done"
  /\ doc.initial.PotentialFlowP
  /\ settings.solver.SolverName = Some("hisa")
\* The material labels in order, and whether they are pairwise distinct.
MaterialLabels == [ i \in DOMAIN doc.materials |-> doc.materials[i].Label ]
DistinctMaterials ==
  \A i, j \in DOMAIN doc.materials : i # j => doc.materials[i].Label # doc.materials[j].Label

\* The fraction a mapping gives for a name, 0 when it gives none.
Given(fractions, name) == IF name \in DOMAIN fractions THEN fractions[name].v ELSE 0

\* The sum of the fractions a mapping holds for the first n names.
RECURSIVE SumOfFirst(_, _, _)
SumOfFirst(fractions, names, n) ==
  IF n = 0 THEN 0 ELSE SumOfFirst(fractions, names, n - 1) + Given(fractions, names[n])

\* out holds one fraction per material: for all but the last the one given
\* (0 when none is), for the last 1 minus their sum, so that they sum to 1.
NormalizedOverAll(out, given, names) ==
  /\ DOMAIN out = Range(names)
  /\ \A i \in 1..(Len(names) - 1) : out[names[i]] = Float(Given(given, names[i]))
  /\ out[names[Len(names)]] = Float(One - SumOfFirst(given, names, Len(names) - 1))
  /\ SumOfFirst(out, names, Len(names)) = One

\* What C14 states of the records that hold volume fractions: the first
\* boundary, the initial values, and an initialisation zone that has volume
\* fractions, once the processor of each has run.
FractionsNormalized ==
  /\ (Ran("processBoundaryConditions") /\ ~FailedAt("processBoundaryConditions")) =>
       \A i \in DOMAIN doc.bcs :
         NormalizedOverAll(SourceBoundary(i).VolumeFractions, doc.bcs[i].VolumeFractions,
                           MaterialLabels)
  /\ (Ran("processInitialConditions") /\ ~FailedAt("processInitialConditions")) =>
       NormalizedOverAll(settings.initialValues.VolumeFractions,
                         doc.initial.VolumeFractions, MaterialLabels)
  /\ Ran("processInitialisationZoneProperties") =>
       \A i \in DOMAIN doc.initZones :
         "VolumeFractions" \in DOMAIN doc.initZones[i] =>
           NormalizedOverAll(settings.initialisationZones[doc.initZones[i].Label]["VolumeFractions"],
                             doc.initZones[i]["VolumeFractions"], MaterialLabels)

\* C14, as claimed: for multiphaseInterFoam with N materials the normalized
\* volume fractions of a boundary, of the initial values and of an
\* initialisation zone are one per material, the first N-1 as given (0 when
\* absent) and the last 1 minus their sum, and sum to 1.
C14_FractionsSumToOne ==
  (settings.built /\ settings.solver.SolverName = Some("multiphaseInterFoam")) =>
    FractionsNormalized

\* C14, amended: the same for N materials whose labels are pairwise
\* distinct.
C14_FractionsSumToOneDistinct ==
  ( /\ settings.built
    /\ settings.solver.SolverName = Some("multiphaseInterFoam")
    /\ DistinctMaterials ) =>
    FractionsNormalized

C14_Witness ==
  /\ pc = "done"
  /\ MaterialLabels = <<"water", "air", "oil">>
  /\ doc.bcs[1].VolumeFractions = [ water |-> Str(3), air |-> Str(2) ]
  /\ settings.boundaries[<<"a">>].VolumeFractions =
       [ water |-> Float(3), air |-> Float(2), oil |-> Float(5) ]
  /\ settings.initialValues.VolumeFractions["oil"] = Float(5)
  /\ doc.initZones # <<>>
  /\ "VolumeFractions" \in DOMAIN doc.initZones[1]
  /\ settings.initialisationZones["iz"]["VolumeFractions"]["oil"] = Float(5)
\* Normalizing the mapping again, with the material list and the solver of
\* the settings, gives the mapping itself.
Unchanged(fractions) ==
  normalizeFractions(settings.fluidProperties, fractions, settings.solver.SolverName[1])
    = fractions

\* What C15 states of the normalized volume fractions of every boundary and
\* of the initial values.
FractionsIdempotent ==
  /\ (Ran("processBoundaryConditions") /\ ~FailedAt("processBoundaryConditions")) =>
       \A i \in DOMAIN doc.bcs : Unchanged(SourceBoundary(i).VolumeFractions)
  /\ (Ran("processInitialConditions") /\ ~FailedAt("processInitialConditions")) =>
       Unchanged(settings.initialValues.VolumeFractions)

\* C15, as claimed: for interFoam and multiphaseInterFoam, normalizing the
\* normalized volume fractions again leaves them unchanged, whatever the
\* original mapping held.
C15_Idempotent ==
  ( /\ settings.built
    /\ settings.solver.SolverName \in { Some("interFoam"), Some("multiphaseInterFoam") } ) =>
    FractionsIdempotent

\* C15, amended: the same for materials whose labels are pairwise distinct.
C15_IdempotentDistinct ==
  ( /\ settings.built
    /\ settings.solver.SolverName \in { Some("interFoam"), Some("multiphaseInterFoam") }
    /\ DistinctMaterials ) =>
    FractionsIdempotent

C15_Witness ==
  /\ pc = "done"
  /\ settings.solver.SolverName = Some("interFoam")
  /\ MaterialLabels = <<"air", "water">>
  /\ doc.bcs[1].VolumeFractions = [ air |-> Str(2), steam |-> Str(4) ]
  /\ settings.boundaries[<<"a">>].VolumeFractions = [ air |-> Float(2) ]
  /\ Unchanged(settings.boundaries[<<"a">>].VolumeFractions)
\* C16, as claimed: for a Jakob porous zone, a first-material kinematic
\* viscosity of 0 fails with the missing-viscosity error and a tube spacing
\* below the outer diameter fails with the invalid-geometry error (both are
\* ValueErrors), no other kind of error being raised first, and no entry
\* for the zone is written.
C16_JakobChecks ==
  \A i \in DOMAIN doc.porousZones :
    ( /\ Ran("processPorousZoneProperties")
      /\ doc.porousZones[i].PorousCorrelation = "Jakob"
      /\ \/ doc.porousZones[i].TubeSpacing < doc.porousZones[i].OuterDiameter
         \/ settings.fluidProperties[1]["KinematicViscosity"] = Float(0) ) =>
      /\ FailedAt("processPorousZoneProperties")
      /\ err.type = "ValueError"
      /\ err.msg \in {"ViscosityMustBeSet", "TubeSpacingLessThanDiameter"}
      /\ doc.porousZones[i].Label \notin DOMAIN settings.porousZones
\* The velocity components the settings hold for the i-th boundary.
Velocity(rec) == <<rec.Ux, rec.Uy, rec.Uz>>

\* C17, as claimed: once boundary processing has run, every boundary with
\* Cartesian velocity keeps its components, and for a boundary whose velocity
\* is not Cartesian either the components are a unit normal of the document
\* times VelocityMag, or the case-write has failed with the
\* invalid-direction-face error (a RuntimeError naming the DirectionFace) and
\* with no other kind of error.
C17_DirectionFace ==
  Ran("processBoundaryConditions") =>
    \A i \in DOMAIN doc.bcs :
      IF doc.bcs[i].VelocityIsCartesian
        THEN Velocity(SourceBoundary(i)) = Velocity(doc.bcs[i])
        ELSE \/ /\ ~FailedAt("processBoundaryConditions")
                /\ \E f \in DOMAIN ShapeElements["Box"] : \E sign \in {1, -1} :
                     /\ ShapeElements["Box"][f].planar
                     /\ sign = -1 <=> doc.bcs[i].ReverseNormal
                     /\ Velocity(SourceBoundary(i)) =
                          [ k \in 1..3 |->
                              sign * ShapeElements["Box"][f].normal[k] * doc.bcs[i].VelocityMag ]
             \/ /\ FailedAt("processBoundaryConditions")
                /\ err.type = "RuntimeError"
                /\ err.msg = "NotAValidPlanarFace"
\* C18, as claimed: material normalization never fails, whatever subset of
\* the optional properties a material holds; the properties absent from the
\* material are absent from the result, and the result holds a
\* KinematicViscosity exactly when the material holds both DynamicViscosity
\* and Density.
C18_OptionalProperties ==
  Ran("processFluidProperties") =>
    /\ ~FailedAt("processFluidProperties")
    /\ Len(settings.fluidProperties) = Len(doc.materials)
    /\ \A i \in DOMAIN settings.fluidProperties :
         LET mp == settings.fluidProperties[i]
             given == DOMAIN doc.materials[i].Material
         IN /\ \A x \in DOMAIN FullMaterial : x \in DOMAIN mp <=> x \in given
            /\ "KinematicViscosity" \in DOMAIN mp <=>
                 ("DynamicViscosity" \in given /\ "Density" \in given)
\* The steps of writeCase in the order the claim gives the processors.
FixedOrder ==
  << "preconditions", "validate", "settings", "processSystemSettings",
     "processSolverSettings", "processFluidProperties", "processBoundaryConditions",
     "processInitialConditions", "clearCase", "exportZoneStlSurfaces",
     "processPorousZoneProperties", "processInitialisationZoneProperties",
     "setupPatchNames", "TemplateBuilder" >>
Position(step) == CHOOSE k \in DOMAIN FixedOrder : FixedOrder[k] = step

\* C19: the steps that have run are distinct steps of the fixed order, each
\* after every step that comes before it in that order (the porous-zone
\* step alone may be left out, when there are no porous zones), and a step
\* that raised is the last one; so solver selection and material
\* normalization have completed before boundary processing, that before
\* initial-condition processing, and that before porous-zone resolution.
\* When the initial velocity is copied from a boundary whose velocity is
\* given by magnitude and direction face, the copied components are the
\* derived ones of the settings, a unit normal times the magnitude, and not
\* the components stored with the boundary.
C19_FixedOrder ==
  /\ \A i \in DOMAIN ran :
       /\ ran[i] \in Range(FixedOrder)
       /\ \A k \in 1..(Position(ran[i]) - 1) :
            \/ \E j \in 1..(i - 1) : ran[j] = FixedOrder[k]
            \/ FixedOrder[k] = "processPorousZoneProperties" /\ doc.porousZones = <<>>
       /\ \A j \in 1..(i - 1) : Position(ran[j]) < Position(ran[i])
  /\ pc = "failed" => err # NoError
  /\ (pc # "failed" /\ ran # <<>>) => err = NoError
  /\ ( /\ Ran("processInitialConditions")
       /\ ~FailedAt("processInitialConditions")
       /\ doc.initial.UseInletUValues
       /\ doc.initial.BoundaryU # 0
       /\ ~doc.bcs[doc.initial.BoundaryU].VelocityIsCartesian ) =>
       LET b == doc.bcs[doc.initial.BoundaryU]
       IN /\ Velocity(settings.initialValues) = Velocity(SourceBoundary(doc.initial.BoundaryU))
          /\ Velocity(settings.initialValues) # Velocity(b)
          /\ \E f \in DOMAIN ShapeElements["Box"] :
               /\ ShapeElements["Box"][f].planar
               /\ Velocity(settings.initialValues) =
                    [ k \in 1..3 |->
                        (IF b.ReverseNormal THEN -1 ELSE 1)
                          * ShapeElements["Box"][f].normal[k] * b.VelocityMag ]

C19_Witness ==
  /\ pc = "done"
  /\ doc.initial.UseInletUValues
  /\ doc.initial.BoundaryU = 1
  /\ ~doc.bcs[1].VelocityIsCartesian
  /\ doc.bcs[1].DirectionFace = <<"Box", ":", "Face2">>
  /\ doc.bcs[1].ReverseNormal
  /\ Velocity(doc.bcs[1]) = <<11, 12, 13>>
  /\ Velocity(settings.initialValues) = <<0, 0, 5>>
\* The step leaves every key of the settings outside keys as it was.
OnlyWrites(keys) ==
  /\ DOMAIN settings' = DOMAIN settings
  /\ \A key \in DOMAIN settings \ keys : settings'[key] = settings[key]

\* The frame of the processors other than porous-zone resolution: each
\* writes its own subtree of the settings only, and no step writes the
\* document objects.
OtherProcessorsFrame ==
  /\ doc' = doc
  /\ pc = "solver" => OnlyWrites({"solver"})
  /\ pc = "fluid" => OnlyWrites({"fluidProperties"})
  /\ pc = "boundaries" => OnlyWrites({"boundaries"})
  /\ pc = "initial" => OnlyWrites({"initialValues"})
  /\ pc = "initZones" => OnlyWrites({"initialisationZones"})

\* C20, as claimed: every processor writes inside its own subtree of the
\* settings only, porous-zone resolution inside 'porousZones', and the
\* document objects are never written.
C20_OwnSubtree ==
  [][ /\ OtherProcessorsFrame
      /\ pc = "porous" => OnlyWrites({"porousZones"}) ]_vars

\* C20, amended: the same, except that porous-zone resolution writes
\* 'porousZones' and the flag 'porousZonesPresent'.
C20_OwnSubtreeAndFlag ==
  [][ /\ OtherProcessorsFrame
      /\ pc = "porous" => OnlyWrites({"porousZones", "porousZonesPresent"}) ]_vars

C20_Witness ==
  /\ pc = "done"
  /\ doc.porousZones # <<>>
  /\ settings.porousZonesPresent
  /\ "pz" \in DOMAIN settings.porousZones
  /\ Len(settings.fluidProperties) = 1
  /\ settings.boundaries[<<"a">>].KinematicPressure # Absent
  /\ settings.initialValues.KinematicPressure # Absent
  /\ settings.solver.SolverName = Some("porousSimpleFoam")
\* The components a planar face of the Box gives a boundary: its unit normal,
\* negated when ReverseNormal, times VelocityMag.
FaceVelocity(b, f) ==
  [ k \in 1..3 |->
      (IF b.ReverseNormal THEN -1 ELSE 1) * ShapeElements["Box"][f].normal[k] * b.VelocityMag ]

\* The i-th boundary took the face of its own first reference: the velocity
\* is derived from that face, Face2 of the Box in every References list
\* tried, and boundary processing raised nothing.
DefaultedToReference(i) ==
  /\ ~FailedAt("processBoundaryConditions")
  /\ doc.bcs[i].References[1] = <<"Box", "Face2">>
  /\ Velocity(SourceBoundary(i)) = FaceVelocity(doc.bcs[i], "Face2")

\* C21, as claimed: once boundary processing has run, a boundary whose
\* velocity is not Cartesian, whose DirectionFace has an empty face name (the
\* empty text, or an object name and a colon with nothing after it) and
\* which has a first reference has taken the face of that reference.
C21_EmptyFaceName ==
  Ran("processBoundaryConditions") =>
    \A i \in DOMAIN doc.bcs :
      ( /\ ~doc.bcs[i].VelocityIsCartesian
        /\ doc.bcs[i].DirectionFace \in { <<>>, <<"Box", ":">> }
        /\ doc.bcs[i].References # <<>> ) =>
        DefaultedToReference(i)

\* C21, amended: the face of the first reference is taken when the object
\* name, the text before the first colon, is empty (the empty text, or a
\* colon first); an object name and a colon with nothing after it takes no
\* default and fails with the invalid-direction-face error, the components
\* staying as stored.
C21_EmptyObjectName ==
  Ran("processBoundaryConditions") =>
    \A i \in DOMAIN doc.bcs :
      ( ~doc.bcs[i].VelocityIsCartesian /\ doc.bcs[i].References # <<>> ) =>
        /\ doc.bcs[i].DirectionFace \in { <<>>, <<":", "Face1">> } => DefaultedToReference(i)
        /\ doc.bcs[i].DirectionFace = <<"Box", ":">> =>
             /\ FailedAt("processBoundaryConditions")
             /\ err.type = "RuntimeError"
             /\ err.msg = "NotAValidPlanarFace"
             /\ Velocity(SourceBoundary(i)) = Velocity(doc.bcs[i])

C21_Witness ==
  /\ pc = "done"
  /\ Len(doc.bcs) = 2
  /\ ~doc.bcs[1].VelocityIsCartesian
  /\ doc.bcs[1].DirectionFace = <<":", "Face1">>
  /\ doc.bcs[1].References = << <<"Box", "Face2">> >>
  /\ ~doc.bcs[1].ReverseNormal
  /\ Velocity(settings.boundaries[<<"a">>]) = <<0, 0, -5>>

\* C22, as claimed: for a Jakob porous zone with tube spacing s >= d0 and a
\* non-zero first-material kinematic viscosity, resolution succeeds and the
\* entry written for the zone has D and F with a third (tube-axis) component
\* of 0, e1 the spacing direction and e3 the tube axis.
C22_JakobResolves ==
  \A i \in DOMAIN doc.porousZones :
    ( /\ Ran("processPorousZoneProperties")
      /\ doc.porousZones[i].PorousCorrelation = "Jakob"
      /\ doc.porousZones[i].TubeSpacing >= doc.porousZones[i].OuterDiameter
      /\ settings.fluidProperties[1]["KinematicViscosity"] # Float(0) ) =>
      /\ ~FailedAt("processPorousZoneProperties")
      /\ doc.porousZones[i].Label \in DOMAIN settings.porousZones
      /\ settings.porousZones[doc.porousZones[i].Label].D[3] = 0
      /\ settings.porousZones[doc.porousZones[i].Label].F[3] = 0
      /\ settings.porousZones[doc.porousZones[i].Label].e1 = doc.porousZones[i].SpacingDirection
      /\ settings.porousZones[doc.porousZones[i].Label].e3 = doc.porousZones[i].TubeAxis

\* The index of the first porous zone whose correlation is not
\* DarcyForchheimer, or 0.
FirstNotDarcy ==
  IF \A i \in DOMAIN doc.porousZones : doc.porousZones[i].PorousCorrelation = "DarcyForchheimer"
    THEN 0
    ELSE CHOOSE i \in DOMAIN doc.porousZones :
           /\ doc.porousZones[i].PorousCorrelation # "DarcyForchheimer"
           /\ \A j \in 1..(i - 1) : doc.porousZones[j].PorousCorrelation = "DarcyForchheimer"

\* The labels of the first n porous zones.
PorousLabelsUpTo(n) == { doc.porousZones[i].Label : i \in 1..n }

\* The last of the first n zones that carries the label.
LastLabelled(l, n) ==
  CHOOSE i \in 1..n :
    /\ doc.porousZones[i].Label = l
    /\ \A j \in (i + 1)..n : doc.porousZones[j].Label # l

\* The entry under the label holds D, F, e1 and e3 of the zone as given.
PassedThrough(l, i) ==
  /\ settings.porousZones[l].D = <<doc.porousZones[i].D1, doc.porousZones[i].D2, doc.porousZones[i].D3>>
  /\ settings.porousZones[l].F = <<doc.porousZones[i].F1, doc.porousZones[i].F2, doc.porousZones[i].F3>>
  /\ settings.porousZones[l].e1 = doc.porousZones[i].e1
  /\ settings.porousZones[l].e3 = doc.porousZones[i].e3

\* The mapping holds one entry per label of the first n zones, each the
\* pass-through of the last zone with that label.
EntryPerLabel(n) ==
  /\ DOMAIN settings.porousZones = PorousLabelsUpTo(n)
  /\ \A l \in PorousLabelsUpTo(n) : PassedThrough(l, LastLabelled(l, n))

\* C23: once porous-zone processing has run on some zones, the zones are
\* resolved in order by correlation name.  DarcyForchheimer zones pass D, F,
\* e1 and e3 through unchanged; when the first zone that is not
\* DarcyForchheimer is not Jakob either, processing fails with the
\* unrecognised-method RuntimeError and nothing is written for that zone (the
\* mapping holds the zones before it); and whenever processing succeeds the
\* mapping has exactly one entry per porous-zone label.
C23_Dispatch ==
  ( Ran("processPorousZoneProperties") /\ doc.porousZones # <<>> ) =>
    /\ FirstNotDarcy = 0 =>
         ~FailedAt("processPorousZoneProperties") /\ EntryPerLabel(Len(doc.porousZones))
    /\ ( FirstNotDarcy # 0 /\ doc.porousZones[FirstNotDarcy].PorousCorrelation # "Jakob" ) =>
         /\ FailedAt("processPorousZoneProperties")
         /\ err.type = "RuntimeError"
         /\ err.msg = "UnrecognisedPorousMethod"
         /\ EntryPerLabel(FirstNotDarcy - 1)
    /\ ~FailedAt("processPorousZoneProperties") =>
         DOMAIN settings.porousZones = PorousLabelsUpTo(Len(doc.porousZones))

\* Two DarcyForchheimer zones under one label leave one entry, the second's;
\* or a DarcyForchheimer zone is followed by one of an unknown name.
C23_Witness ==
  /\ Len(doc.porousZones) = 2
  /\ doc.porousZones[1].PorousCorrelation = "DarcyForchheimer"
  /\ \/ /\ pc = "done"
        /\ doc.porousZones[1].Label = "pz" /\ doc.porousZones[2].Label = "pz"
        /\ DOMAIN settings.porousZones = {"pz"}
        /\ settings.porousZones["pz"].D = <<7, 8, 9>>
     \/ /\ FailedAt("processPorousZoneProperties")
        /\ doc.porousZones[2].PorousCorrelation = "Ergun"
        /\ doc.porousZones[2].Label = "pq"
        /\ DOMAIN settings.porousZones = {"pz"}
        /\ settings.porousZones["pz"].D = <<1, 2, 3>>

\* C24: once boundary processing has run, a boundary carries a
\* KinematicPressure only if the solver is simpleFoam, porousSimpleFoam or
\* pimpleFoam, and its value is then the boundary's Pressure divided by the
\* density of the first material; when boundary processing raised nothing,
\* every boundary carries one under these solvers, and none under any other.
C24_KinematicPressure ==
  Ran("processBoundaryConditions") =>
    \A i \in DOMAIN doc.bcs :
      /\ SourceBoundary(i).KinematicPressure # Absent =>
           /\ settings.solver.SolverName[1] \in {"simpleFoam", "porousSimpleFoam", "pimpleFoam"}
           /\ SourceBoundary(i).KinematicPressure =
                Some(doc.bcs[i].Pressure \div settings.fluidProperties[1]["Density"].v)
      /\ ( /\ ~FailedAt("processBoundaryConditions")
           /\ settings.solver.SolverName[1] \in {"simpleFoam", "porousSimpleFoam", "pimpleFoam"} ) =>
           SourceBoundary(i).KinematicPressure # Absent

C24_Witness ==
  /\ pc = "done"
  /\ settings.solver.SolverName = Some("pimpleFoam")
  /\ Len(doc.bcs) = 2
  /\ doc.bcs[2].Pressure = 240
  /\ settings.fluidProperties[1]["Density"] = Float(2)
  /\ settings.boundaries[doc.bcs[2].Label].KinematicPressure = Some(120)

\* A solver that works with the pressure itself leaves the boundaries without
\* a KinematicPressure.
C24_WitnessOther ==
  /\ pc = "done"
  /\ settings.solver.SolverName = Some("buoyantSimpleFoam")
  /\ Len(doc.bcs) = 2
  /\ settings.boundaries[doc.bcs[2].Label].KinematicPressure = Absent

\* The mapping holds one key, the first material's name, with the fraction
\* given for it (0 when none is given).
FirstMaterialOnly(out, given) ==
  out = SetKey(<<>>, doc.materials[1].Label, Float(Given(given, doc.materials[1].Label)))

\* C25: for interFoam the normalized VolumeFractions of every boundary and
\* of the initial values hold exactly one key, the first material's name,
\* with the value given for it or 0 when none is given (nothing is kept for
\* the last material or for a name that is no material).  For a solver other
\* than interFoam and multiphaseInterFoam the VolumeFractions of boundaries
\* and initial values are as stored in the document.
C25_InterFoamFractions ==
  /\ ( /\ Ran("processBoundaryConditions")
       /\ ~FailedAt("processBoundaryConditions")
       /\ settings.solver.SolverName = Some("interFoam") ) =>
       \A i \in DOMAIN doc.bcs :
         FirstMaterialOnly(SourceBoundary(i).VolumeFractions, doc.bcs[i].VolumeFractions)
  /\ ( /\ Ran("processInitialConditions")
       /\ ~FailedAt("processInitialConditions")
       /\ settings.solver.SolverName = Some("interFoam") ) =>
       FirstMaterialOnly(settings.initialValues.VolumeFractions, doc.initial.VolumeFractions)
  /\ ( /\ Ran("processBoundaryConditions")
       /\ settings.solver.SolverName[1] \notin {"interFoam", "multiphaseInterFoam"} ) =>
       \A i \in DOMAIN doc.bcs :
         SourceBoundary(i).VolumeFractions = doc.bcs[i].VolumeFractions
  /\ ( /\ Ran("processInitialConditions")
       /\ settings.solver.SolverName[1] \notin {"interFoam", "multiphaseInterFoam"} ) =>
       settings.initialValues.VolumeFractions = doc.initial.VolumeFractions

C25_Witness ==
  /\ pc = "done"
  /\ settings.solver.SolverName = Some("interFoam")
  /\ MaterialLabels = <<"air", "water">>
  /\ doc.bcs[1].VolumeFractions = [ air |-> Str(2), steam |-> Str(4) ]
  /\ settings.boundaries[<<"a">>].VolumeFractions = [ air |-> Float(2) ]
  /\ settings.boundaries[<<"b">>].VolumeFractions = [ air |-> Float(0) ]
  /\ settings.initialValues.VolumeFractions = [ air |-> Float(2) ]

\* A single-phase case keeps the fractions as stored.
C25_WitnessOther ==
  /\ pc = "done"
  /\ settings.solver.SolverName = Some("pimpleFoam")
  /\ doc.bcs[1].VolumeFractions = [ water |-> Str(3), air |-> Str(2) ]
  /\ settings.boundaries[<<"a">>].VolumeFractions = [ water |-> Str(3), air |-> Str(2) ]
  /\ settings.initialValues.VolumeFractions = [ water |-> Str(3), air |-> Str(2) ]

\* The turbulence of the initial values is computed from the intensity and
\* length scale of a source boundary: a turbulence model is named, the copy
\* is asked for, and initial-condition processing raised nothing.
ComputedFromIntensity ==
  /\ Ran("processInitialConditions")
  /\ ~FailedAt("processInitialConditions")
  /\ doc.physics.TurbulenceModel # Absent
  /\ doc.initial.UseInletTurbulenceValues
  /\ doc.initial.BoundaryTurb # 0
  /\ SourceBoundary(doc.initial.BoundaryTurb).TurbulenceInletSpecification = "intensityAndLengthScale"

\* The value of k in thousandths, for an intensity in hundredths.
KThousandths(k) == (k.factor[1] * k.Uin2 * k.I * k.I) \div (k.factor[2] * 10)

\* C26, as claimed: when k and omega are computed from the intensity and
\* length scale of the source, k is 3/2 times (U*I)^2, the factor being 3/2
\* and not 1, with U the magnitude of the source's (Ux, Uy, Uz), and omega is
\* sqrt(k)/(0.09^0.25*L) of that k; for U = 10 and I = 0.05, k = 0.375.
C26_ThreeHalves ==
  ComputedFromIntensity =>
    LET b == SourceBoundary(doc.initial.BoundaryTurb)
    IN /\ settings.initialValues.k =
            [ expr |-> "3/2*(Uin*I)^2", factor |-> <<3, 2>>,
              Uin2 |-> b.Ux * b.Ux + b.Uy * b.Uy + b.Uz * b.Uz, I |-> b.TurbulenceIntensity ]
       /\ settings.initialValues.omega =
            [ expr |-> "k^0.5/(0.09^0.25*l)", k |-> settings.initialValues.k,
              l |-> b.TurbulenceLengthScale ]
       /\ ( Velocity(b) = <<10, 0, 0>> /\ b.TurbulenceIntensity = 5 ) =>
            KThousandths(settings.initialValues.k) = 375

\* C27, as claimed: once initial-condition processing has completed under
\* simpleFoam, porousSimpleFoam or pimpleFoam, the KinematicPressure of the
\* initial values is their final Pressure divided by the density of the
\* first material, also when the Pressure was copied from a boundary.
C27_KinematicPressureFinal ==
  ( /\ Ran("processInitialConditions")
    /\ ~FailedAt("processInitialConditions")
    /\ settings.solver.SolverName[1] \in {"simpleFoam", "porousSimpleFoam", "pimpleFoam"} ) =>
    settings.initialValues.KinematicPressure =
      Some(settings.initialValues.Pressure \div settings.fluidProperties[1]["Density"].v)

\* C28, as claimed: every sub-type name initial-condition processing tests
\* for is one of SUBTYPES, and a source of sub-type uniformVelocityInlet with
\* the specification intensityAndLengthScale is accepted by the turbulence
\* copy (k and omega are computed) whenever the copy is reached.
C28_TestedSubTypesValid ==
  /\ ( /\ ReachedTurbulence
       /\ doc.physics.TurbulenceModel # Absent
       /\ doc.initial.UseInletTurbulenceValues
       /\ doc.initial.BoundaryTurb # 0
       /\ doc.bcs[doc.initial.BoundaryTurb].BoundarySubType = "uniformVelocityInlet"
       /\ doc.bcs[doc.initial.BoundaryTurb].TurbulenceInletSpecification
            = "intensityAndLengthScale" ) =>
       /\ ~FailedAt("processInitialConditions")
       /\ "expr" \in DOMAIN settings.initialValues.k
  /\ pc = "done" => TestedSubTypes \subseteq AllSubTypes

\* Every piece returned since start(), in order.
RECURSIVE Emitted(_)
Emitted(n) ==
  IF n = 0 THEN <<>>
  ELSE Emitted(n - 1) \o (IF returned[n] = Absent THEN <<>> ELSE returned[n][1])

\* The next line after the i-th that is not blank, or 0.
NextNonBlank(i) ==
  IF \A j \in (i + 1)..Len(fed) : fed[j] = <<>> THEN 0
  ELSE CHOOSE j \in (i + 1)..Len(fed) :
         fed[j] # <<>> /\ \A m \in (i + 1)..(j - 1) : fed[m] = <<>>

\* After every fatal-error headline that has a next non-blank line, the
\* messages hold the heading and, right after it, that line.
HeadingThenNextLine ==
  \A i \in DOMAIN fed :
    ( startsWithOrAfterField(fed[i], FATAL) /\ NextNonBlank(i) # 0 ) =>
      \E k \in 1..(Len(Emitted(Len(returned))) - 1) :
        /\ Emitted(Len(returned))[k] = Piece(<<"OpenFOAM fatal error:">>, 0, TRUE)
        /\ Emitted(Len(returned))[k + 1] = Piece(fed[NextNonBlank(i)], NextNonBlank(i), TRUE)

\* No input line is repeated in the messages more than once.
EmittedAtMostOnce ==
  \A i \in DOMAIN fed :
    Cardinality({ k \in DOMAIN Emitted(Len(returned)) : Emitted(Len(returned))[k].line = i }) <= 1

\* C29, as claimed: across the calls since start(), every fatal-error
\* headline is answered by the heading and then the next non-blank input
\* line, in the same call or a later one; each input line is emitted at most
\* once; and print_next_error_lines is never negative.
C29_Scraping ==
  /\ HeadingThenNextLine
  /\ EmittedAtMostOnce
  /\ print_next_error_lines >= 0

\* C30: under every interleaving of the two callbacks, re-entrant ones
\* included, readStdout reads lines only while the read channel is
\* StandardOutput (every line in the text of a readStdout call is a line of
\* the standard output), and the read channel is StandardError only while
\* the innermost call is readStderr draining lines: in a hook and in the GUI
\* update of either reader the channel is StandardOutput.
C30_ReadChannel ==
  /\ \A i \in DOMAIN stack :
       stack[i].fn = "readStdout" =>
         \A k \in DOMAIN stack[i].text : stack[i].text[k] = "StandardOutput"
  /\ ( stack # <<>> /\ Top.fn = "readStdout" /\ Top.at = "loop" ) =>
       channel = "StandardOutput"
  /\ channel = "StandardError" =>
       ( stack # <<>> /\ Top.fn = "readStderr" /\ Top.at = "loop" )

\* readStdout, called from the hook of a readStderr that has read a line,
\* has read a line of the standard output while a line of the standard error
\* is waiting.
C30_Witness ==
  /\ Len(stack) = 2
  /\ stack[1] = Frame("readStderr", "hook", <<"StandardError">>)
  /\ stack[2] = Frame("readStdout", "loop", <<"StandardOutput">>)
  /\ buffered["StandardError"] # <<>>
  /\ channel = "StandardOutput"
====
